---- MODULE Spec2Model ----
(***************************************************************************)
(* TTAT: the sentence-pair extraction pipeline of src/data_processor.py.   *)
(* A Python str is a sequence of one-character strings; a character that   *)
(* is not ASCII is written by its code point ("U4E2D").                    *)
(***************************************************************************)
EXTENDS Integers, Sequences, FiniteSets, TLC

VARIABLES
    \* DataProcessor.__init__: the configuration of the processor
    MIN_SENTENCE_LENGTH, MAX_SENTENCE_LENGTH, FILTER_INCOMPLETE_SENTENCES,
    BATCH_SIZE, FILE_STRUCTURE,
    \* the worksheet of input_file: its physical rows, each a tuple of cells
    sheet,
    \* read_excel_file: the workbook handle, the skip loop's counter, the
    \* position of the data loop's row iterator, row_count
    wb, skip_i, row_iter, row_count,
    \* process_sentence_pairs_batch: where the generator stands, its buffers
    \* and counters
    pc, sentence_pairs, invalid_pairs, total_processed, total_valid,
    total_invalid,
    \* what the caller has received: the batches yielded so far
    batches,
    \* history: the physical rows read_excel_file yielded, the rows it
    \* dropped, the outcome of each validation in the pipeline
    yielded_rows, dropped_rows, validated,
    \* clean_sentence applied repeatedly: <<x, clean(x), clean(clean(x))>>
    cleaned,
    \* validate_sentence_pair called on one pair: its arguments and the
    \* outcomes of the calls made so far
    v_source, v_target, v_result,
    \* save_invalid_pairs: the invalid-pairs file (does it exist, its lines)
    \* and, history, the lists passed to the calls that returned
    invalid_file_exists, invalid_file, save_calls,
    \* CoreProcessor.process_file from the point where the results file is
    \* opened: where it is, the valid pairs it extracted, the index of its
    \* loop, the stop flag, the results file, the rows buffered and,
    \* history, what the analysis call returned for each pair analysed
    pf_pc, sentence_pairs_n, index, stop_processing, output_file_exists,
    output_file, batch_results, analysed,
    \* history: an analysis call was started with the stop flag set
    started_after_stop,
    \* ConfigManager.load_config: the configuration file, the argument of
    \* the call, <<what it returned>> once it has, and <<the limits of the
    \* DataProcessor built from the returned configuration>>
    config_file, require_all_fields, loaded, processor,
    \* the output path a caller supplies and <<the invalid-pairs path
    \* derived from it>>
    output_path, invalid_path,
    \* analyze_sentence_with_ai: the index of its retry loop, where it is,
    \* the seconds slept, <<the value returned>> and, history, the outcome of
    \* each HTTP attempt
    attempt, ai_pc, ai_slept, ai_return, ai_log,
    \* process_file, lines 185-278: the rows of the input file (or
    \* Unreadable), df, the rows the loop has passed, sentence_pairs and
    \* invalid_pairs of core.py, and the invalid-pairs file it writes
    input_file, df, df_i, core_pairs, core_invalid_pairs,
    core_invalid_exists, core_invalid_file,
    \* gui.py: the fields of the main window that processing touches, the
    \* state of its buttons, whether the configuration on disk is complete,
    \* the stop flag of every CoreProcessor made so far (gui_processor is
    \* the number of the one self.processor refers to, 0 for None), the
    \* worker threads inside _run_processing, the callbacks root.after has
    \* queued and, history, the runs during which stop was requested
    is_processing, start_btn, stop_btn, select_input_btn, select_output_btn,
    settings_btn, input_file_path, output_file_path, gui_config, processors,
    gui_processor, threads, after_queue, stop_requests,
    \* cli.py check_and_setup_config: the configuration file as it was when
    \* the program started (history), the branch taken and <<the value
    \* returned>>
    file_at_start, setup_branch, setup_return

configVars ==
    <<MIN_SENTENCE_LENGTH, MAX_SENTENCE_LENGTH, FILTER_INCOMPLETE_SENTENCES,
      BATCH_SIZE, FILE_STRUCTURE>>

readerVars == <<wb, skip_i, row_iter, row_count>>

batchVars ==
    <<pc, sentence_pairs, invalid_pairs, total_processed, total_valid,
      total_invalid, batches>>

historyVars == <<yielded_rows, dropped_rows, validated>>

pipelineVars == <<sheet, readerVars, batchVars, historyVars>>

validateVars == <<v_source, v_target, v_result>>

saveVars == <<invalid_file_exists, invalid_file, save_calls>>

resultVars ==
    <<pf_pc, sentence_pairs_n, index, stop_processing, output_file_exists,
      output_file, batch_results, analysed, started_after_stop>>

loadVars == <<config_file, require_all_fields, loaded, processor>>

\* the result of str.replace on the output path: the path given and
\* <<the path of the invalid-pairs file>> once it is derived
pathVars == <<output_path, invalid_path>>

\* what the pipeline, clean_sentence and validate_sentence_pair leave alone
analyzeVars == <<attempt, ai_pc, ai_slept, ai_return, ai_log>>

extractVars ==
    <<input_file, df, df_i, core_pairs, core_invalid_pairs,
      core_invalid_exists, core_invalid_file>>

guiVars ==
    <<is_processing, start_btn, stop_btn, select_input_btn, select_output_btn,
      settings_btn, input_file_path, output_file_path, gui_config, processors,
      gui_processor, threads, after_queue, stop_requests>>

setupVars == <<file_at_start, setup_branch, setup_return>>

outputVars ==
    <<saveVars, resultVars, loadVars, pathVars, analyzeVars, extractVars,
      guiVars, setupVars>>

coreVars == <<configVars, pipelineVars, cleaned, validateVars>>

\* what the actions of one part leave alone
exceptSave ==
    <<coreVars, resultVars, loadVars, pathVars, analyzeVars, extractVars,
      guiVars, setupVars>>

exceptResult ==
    <<coreVars, saveVars, loadVars, pathVars, analyzeVars, extractVars,
      guiVars, setupVars>>

exceptLoad ==
    <<coreVars, saveVars, resultVars, pathVars, analyzeVars, extractVars,
      guiVars, setupVars>>

exceptPath ==
    <<coreVars, saveVars, resultVars, loadVars, analyzeVars, extractVars,
      guiVars, setupVars>>

exceptAnalyze ==
    <<coreVars, saveVars, resultVars, loadVars, pathVars, extractVars,
      guiVars, setupVars>>

\* process_file shares pf_pc and the results file with the loop that
\* follows the extraction
exceptExtract ==
    <<coreVars, saveVars, loadVars, pathVars, analyzeVars, guiVars,
      setupVars>>

exceptGui ==
    <<coreVars, saveVars, resultVars, loadVars, pathVars, analyzeVars,
      extractVars, setupVars>>

\* check_and_setup_config works on the file and the result of load_config
exceptSetup ==
    <<coreVars, saveVars, resultVars, pathVars, analyzeVars, extractVars,
      guiVars>>

vars == <<coreVars, outputVars>>

\* ------------------------------------------------------------------------
\* Bounds of the model
\* ------------------------------------------------------------------------
MaxLen == 4
MaxRows == 3
MaxSkip == 2
MaxBatch == 2
MaxBody == 11

\* ------------------------------------------------------------------------
\* Character classes of the regular expressions (Python re, str patterns)
\* ------------------------------------------------------------------------
\* \s and str.strip(): space, tab, ideographic space U+3000
Whitespace == {" ", "\t", "U3000"}

\* \d
Digits == {"0", "1", "2", "3", "4", "5", "6", "7", "8", "9"}

\* [一-鿿], the ideographs the model writes
CJK == {"U4E2D", "U4F60", "U597D", "U4E16", "U754C", "U77ED"}

Letters ==
    {"a", "c", "d", "e", "h", "l", "m", "o", "r", "s", "t", "u", "w", "y",
     "H", "S"}

\* \w
WordChars == Letters \cup Digits \cup CJK \cup {"_"}

IsSpace(c) == c \in Whitespace

\* ------------------------------------------------------------------------
\* Helpers on strings
\* ------------------------------------------------------------------------
\* number of consecutive characters of class cls in t from position i on
RECURSIVE RunLen(_, _, _)
RunLen(t, i, cls) ==
    IF i <= Len(t) /\ t[i] \in cls THEN 1 + RunLen(t, i + 1, cls) ELSE 0

\* t[i..] starts with the literal lit
StartsWithAt(t, i, lit) ==
    /\ i + Len(lit) - 1 <= Len(t)
    /\ \A k \in 1..Len(lit) : t[i + k - 1] = lit[k]

\* str.strip()
RECURSIVE TrailLen(_, _)
TrailLen(t, i) ==
    IF i >= 1 /\ IsSpace(t[i]) THEN 1 + TrailLen(t, i - 1) ELSE 0

strip(t) ==
    LET lead == RunLen(t, 1, Whitespace)
    IN  IF lead = Len(t) THEN <<>>
        ELSE SubSeq(t, lead + 1, Len(t) - TrailLen(t, Len(t)))

\* ------------------------------------------------------------------------
\* DataProcessor.clean_sentence
\* ------------------------------------------------------------------------
\* length of the match of <s>|</s>|doc#\w+\s* at position i, 0 when none
MarkerMatchLen(t, i) ==
    IF StartsWithAt(t, i, <<"<", "s", ">">>) THEN 3
    ELSE IF StartsWithAt(t, i, <<"<", "/", "s", ">">>) THEN 4
    ELSE IF /\ StartsWithAt(t, i, <<"d", "o", "c", "#">>)
            /\ RunLen(t, i + 4, WordChars) >= 1
         THEN LET w == RunLen(t, i + 4, WordChars)
              IN  4 + w + RunLen(t, i + 4 + w, Whitespace)
    ELSE 0

\* re.sub(r'<s>|</s>|doc#\w+\s*', '', text): leftmost matches, left to right
RECURSIVE SubMarkers(_, _)
SubMarkers(t, i) ==
    IF i > Len(t) THEN <<>>
    ELSE LET m == MarkerMatchLen(t, i)
         IN  IF m > 0 THEN SubMarkers(t, i + m)
             ELSE <<t[i]>> \o SubMarkers(t, i + 1)

\* re.sub(r'^\d+\s*\.\s*', '', cleaned)
SubNumbering(t) ==
    LET d == RunLen(t, 1, Digits)
        s == RunLen(t, 1 + d, Whitespace)
        dot == 1 + d + s
    IN  IF d >= 1 /\ dot <= Len(t) /\ t[dot] = "."
        THEN SubSeq(t, dot + 1 + RunLen(t, dot + 1, Whitespace), Len(t))
        ELSE t

\* re.search(r'[一-鿿]', cleaned)
HasCJK(t) == \E i \in 1..Len(t) : t[i] \in CJK

\* re.sub(r'\s+', '', cleaned)
RemoveSpaces(t) == SelectSeq(t, LAMBDA c : ~IsSpace(c))

\* re.sub(r'\s+', ' ', cleaned)
RECURSIVE CollapseSpaces(_, _)
CollapseSpaces(t, i) ==
    IF i > Len(t) THEN <<>>
    ELSE IF IsSpace(t[i])
         THEN <<" ">> \o CollapseSpaces(t, i + RunLen(t, i, Whitespace))
         ELSE <<t[i]>> \o CollapseSpaces(t, i + 1)

\* clean_sentence with the CJK branch collapsing whitespace instead of
\* removing it
clean_sentence_collapse_cjk(text) ==
    LET c1 == strip(SubMarkers(text, 1))
        c2 == strip(SubNumbering(c1))
    IN  CollapseSpaces(c2, 1)

\* clean_sentence with the non-CJK branch leaving whitespace as it is
clean_sentence_keep_spaces(text) ==
    LET c1 == strip(SubMarkers(text, 1))
        c2 == strip(SubNumbering(c1))
    IN  IF HasCJK(c2) THEN RemoveSpaces(c2) ELSE c2

clean_sentence(text) ==
    LET c1 == strip(SubMarkers(text, 1))
        c2 == strip(SubNumbering(c1))
    IN  IF HasCJK(c2) THEN RemoveSpaces(c2) ELSE CollapseSpaces(c2, 1)

\* ------------------------------------------------------------------------
\* langdetect.detect: what one call can do. The engine is probabilistic, so
\* the model takes any of its outcomes: a language code, LangDetectException
\* or another error (OSError when its profiles cannot be read)
\* ------------------------------------------------------------------------
DetectOutcomes == {"en", "zh-cn", "zh-tw", "LangDetectException", "OSError"}

SOURCE_LANG == FILE_STRUCTURE.language.source

\* ------------------------------------------------------------------------
\* DataProcessor.is_valid_language: "True", "False", or the error it lets
\* through; d is the outcome of detect if it is called
\* ------------------------------------------------------------------------
LanguageMinLength == 10

DetectCalled(text) == Len(strip(text)) >= LanguageMinLength

is_valid_language(text, expected_lang, d) ==
    IF Len(strip(text)) < LanguageMinLength THEN "False"
    ELSE IF d = "LangDetectException" THEN "False"
    ELSE IF d = "OSError" THEN "OSError"
    ELSE IF expected_lang = "zh-cn"
         THEN (IF d \in {"zh-cn", "zh-tw", "zh"} THEN "True" ELSE "False")
         ELSE (IF d = expected_lang THEN "True" ELSE "False")

\* ------------------------------------------------------------------------
\* DataProcessor.validate_sentence_pair
\* ------------------------------------------------------------------------
\* ignore_chars and the character class of the while loop
IgnoreChars ==
    {" ", "U3000", "U2018", "U2019", "U201C", "U201D", "\"", "'",
     "U00AB", "U00BB", "(", ")", "[", "]", "{", "}"}

\* [.!?;:。！？；：…—]
TerminalPunctuation ==
    {".", "!", "?", ";", ":", "U3002", "UFF01", "UFF1F", "UFF1B", "UFF1A",
     "U2026", "U2014"}

\* the while loop: the index of the last character that is not ignorable
RECURSIVE LastSignificant(_, _)
LastSignificant(t, i) ==
    IF i >= 1 /\ t[i] \in IgnoreChars THEN LastSignificant(t, i - 1) ELSE i

\* the reasons, by the rule that gives them
ReasonEmpty == <<"source sentence is empty">>
ReasonIgnorable == <<"source sentence is empty or all ignorable">>
ReasonPunctuation == <<"source sentence does not end with punctuation">>
ReasonMinLength(sl, tl) == <<"sentence shorter than the minimum", sl, tl>>
ReasonMaxLength(sl, tl) == <<"sentence longer than the maximum", sl, tl>>
ReasonLanguage == <<"source language detection failed">>

Return(ok, reason) == [raised |-> "", ok |-> ok, reason |-> reason]
Raise(error) == [raised |-> error, ok |-> FALSE, reason |-> <<>>]

\* the completeness rule, lines 128-149: its reason, or <<>> when it passes
CompletenessCheck(source_text) ==
    IF ~FILTER_INCOMPLETE_SENTENCES THEN <<>>
    ELSE IF source_text = <<>> THEN ReasonEmpty
    ELSE LET i == LastSignificant(source_text, Len(source_text))
         IN  IF i < 1 THEN ReasonIgnorable
             ELSE IF source_text[i] \notin TerminalPunctuation
                  THEN ReasonPunctuation
             ELSE <<>>

\* the length rules moved in front of the completeness rule
validate_length_first(source_text, target_text, d) ==
    LET source_len == Len(source_text)
        target_len == Len(target_text)
        incomplete == CompletenessCheck(source_text)
    IN  IF \/ source_len < MIN_SENTENCE_LENGTH
           \/ target_len < MIN_SENTENCE_LENGTH
        THEN Return(FALSE, ReasonMinLength(source_len, target_len))
        ELSE IF \/ source_len > MAX_SENTENCE_LENGTH
                \/ target_len > MAX_SENTENCE_LENGTH
             THEN Return(FALSE, ReasonMaxLength(source_len, target_len))
        ELSE IF incomplete # <<>> THEN Return(FALSE, incomplete)
        ELSE LET lang == is_valid_language(source_text, SOURCE_LANG, d)
             IN  IF lang = "True" THEN Return(TRUE, <<>>)
                 ELSE IF lang = "False" THEN Return(FALSE, ReasonLanguage)
                 ELSE Raise(lang)

\* the length rules with exclusive bounds
validate_exclusive_bounds(source_text, target_text, d) ==
    LET source_len == Len(source_text)
        target_len == Len(target_text)
        incomplete == CompletenessCheck(source_text)
    IN  IF incomplete # <<>> THEN Return(FALSE, incomplete)
        ELSE IF \/ source_len <= MIN_SENTENCE_LENGTH
                \/ target_len <= MIN_SENTENCE_LENGTH
             THEN Return(FALSE, ReasonMinLength(source_len, target_len))
        ELSE IF \/ source_len >= MAX_SENTENCE_LENGTH
                \/ target_len >= MAX_SENTENCE_LENGTH
             THEN Return(FALSE, ReasonMaxLength(source_len, target_len))
        ELSE LET lang == is_valid_language(source_text, SOURCE_LANG, d)
             IN  IF lang = "True" THEN Return(TRUE, <<>>)
                 ELSE IF lang = "False" THEN Return(FALSE, ReasonLanguage)
                 ELSE Raise(lang)

\* the language rule moved in front of the length rules
validate_language_first(source_text, target_text, d) ==
    LET source_len == Len(source_text)
        target_len == Len(target_text)
        incomplete == CompletenessCheck(source_text)
        lang == is_valid_language(source_text, SOURCE_LANG, d)
    IN  IF incomplete # <<>> THEN Return(FALSE, incomplete)
        ELSE IF lang = "False" THEN Return(FALSE, ReasonLanguage)
        ELSE IF lang # "True" THEN Raise(lang)
        ELSE IF \/ source_len < MIN_SENTENCE_LENGTH
                \/ target_len < MIN_SENTENCE_LENGTH
             THEN Return(FALSE, ReasonMinLength(source_len, target_len))
        ELSE IF \/ source_len > MAX_SENTENCE_LENGTH
                \/ target_len > MAX_SENTENCE_LENGTH
             THEN Return(FALSE, ReasonMaxLength(source_len, target_len))
        ELSE Return(TRUE, <<>>)

\* the same function without the language rule
validate_without_language(source_text, target_text, d) ==
    LET source_len == Len(source_text)
        target_len == Len(target_text)
        incomplete == CompletenessCheck(source_text)
    IN  IF incomplete # <<>> THEN Return(FALSE, incomplete)
        ELSE IF \/ source_len < MIN_SENTENCE_LENGTH
                \/ target_len < MIN_SENTENCE_LENGTH
             THEN Return(FALSE, ReasonMinLength(source_len, target_len))
        ELSE IF \/ source_len > MAX_SENTENCE_LENGTH
                \/ target_len > MAX_SENTENCE_LENGTH
             THEN Return(FALSE, ReasonMaxLength(source_len, target_len))
        ELSE Return(TRUE, <<>>)

validate_sentence_pair(source_text, target_text, d) ==
    LET source_len == Len(source_text)
        target_len == Len(target_text)
        incomplete == CompletenessCheck(source_text)
    IN  IF incomplete # <<>> THEN Return(FALSE, incomplete)
        ELSE IF \/ source_len < MIN_SENTENCE_LENGTH
                \/ target_len < MIN_SENTENCE_LENGTH
             THEN Return(FALSE, ReasonMinLength(source_len, target_len))
        ELSE IF \/ source_len > MAX_SENTENCE_LENGTH
                \/ target_len > MAX_SENTENCE_LENGTH
             THEN Return(FALSE, ReasonMaxLength(source_len, target_len))
        ELSE LET lang == is_valid_language(source_text, SOURCE_LANG, d)
             IN  IF lang = "True" THEN Return(TRUE, <<>>)
                 ELSE IF lang = "False" THEN Return(FALSE, ReasonLanguage)
                 ELSE Raise(lang)

\* is detect reached by validate_sentence_pair on this pair
DetectReached(source_text, target_text) ==
    /\ CompletenessCheck(source_text) = <<>>
    /\ Len(source_text) >= MIN_SENTENCE_LENGTH
    /\ Len(target_text) >= MIN_SENTENCE_LENGTH
    /\ Len(source_text) <= MAX_SENTENCE_LENGTH
    /\ Len(target_text) <= MAX_SENTENCE_LENGTH
    /\ DetectCalled(source_text)

\* ------------------------------------------------------------------------
\* The worksheets and configurations the model runs on
\* ------------------------------------------------------------------------
Hello == <<"H", "e", "l", "l", "o", " ", "w", "o", "r", "l", "d", ".">>
Nihao == <<"U4F60", "U597D", "U4E16", "U754C", "U3002">>
Short == <<"s", "h", "o", "r", "t">>
Duan == <<"U77ED">>
DocA == <<"d", "1">>
DocB == <<"d", "2">>

RowEnglish == <<DocA, <<"<", "s", ">">> \o Hello \o <<"<", "/", "s", ">">>, DocB, Hello>>
RowHello == <<DocA, <<"1", ".", " ">> \o Hello, DocB, <<"d", "o", "c", "#", "1", " ">> \o Nihao>>
RowTitle == <<<<"S", "u", "m", "m", "a", "r", "y">>, <<>>, <<>>, <<>>>>
RowBlank == <<<<>>, <<" ">>, <<>>, <<>>>>
RowNarrow == <<DocA, Hello>>

RowSamples == {RowEnglish, RowHello, RowTitle, RowBlank, RowNarrow}

Sheets == UNION {[1..n -> RowSamples] : n \in 0..MaxRows}

\* file_structure.columns: the default of DataProcessor.__init__
DefaultColumns ==
    [source_doc_id |-> [enabled |-> TRUE, index |-> 0],
     source_text |-> [enabled |-> TRUE, index |-> 1],
     target_doc_id |-> [enabled |-> TRUE, index |-> 2],
     target_text |-> [enabled |-> TRUE, index |-> 3]]

\* a layout without the document ids: the texts in the first two columns
TextColumns ==
    [source_doc_id |-> [enabled |-> FALSE, index |-> 0],
     source_text |-> [enabled |-> TRUE, index |-> 0],
     target_doc_id |-> [enabled |-> FALSE, index |-> 2],
     target_text |-> [enabled |-> TRUE, index |-> 1]]

ColumnLayouts == {DefaultColumns, TextColumns}

DefaultLanguage == [source |-> "en", target |-> "zh-cn"]

DefaultMinLength == 10
DefaultMaxLength == 500
DefaultBatchSize == 500
DefaultSkipRows == 6

\* ------------------------------------------------------------------------
\* DataProcessor.read_excel_file and process_sentence_pairs_batch
\* ------------------------------------------------------------------------
ColumnNames == DOMAIN FILE_STRUCTURE.columns

EnabledColumns == {c \in ColumnNames : FILE_STRUCTURE.columns[c].enabled}

SetMax(S) == CHOOSE m \in S : \A x \in S : x <= m

\* lines 59-62
max_column_index == SetMax({FILE_STRUCTURE.columns[c].index : c \in EnabledColumns})

\* lines 74-77: the record of a row
RowData(row) ==
    [c \in EnabledColumns |-> row[FILE_STRUCTURE.columns[c].index + 1]]

\* the blank test with any() in place of all()
AllBlankAny(data) == \E c \in DOMAIN data : strip(data[c]) = <<>>

\* line 80
AllBlank(data) == \A c \in DOMAIN data : strip(data[c]) = <<>>

\* row.get(name, '')
Get(data, name) == IF name \in DOMAIN data THEN data[name] ELSE <<>>

\* lines 191-196
ValidPair(data, source_sentence, target_sentence, n) ==
    [source_doc_id |-> Get(data, "source_doc_id"),
     target_doc_id |-> Get(data, "target_doc_id"),
     source_sentence |-> source_sentence,
     target_sentence |-> target_sentence,
     row |-> n]

\* lines 199-205
InvalidPair(data, source_sentence, target_sentence, reason, n) ==
    [source_doc_id |-> Get(data, "source_doc_id"),
     target_doc_id |-> Get(data, "target_doc_id"),
     reason |-> reason,
     source |-> source_sentence,
     target |-> target_sentence,
     row |-> n]

\* load_workbook with the failure swallowed: the generator ends as if the
\* sheet were empty
load_workbook_suppressed ==
    /\ pc = "created"
    /\ \E ok \in BOOLEAN :
         IF ok
         THEN /\ wb' = "open"
              /\ pc' = IF FILE_STRUCTURE.skip_rows > 0 THEN "skip" ELSE "read"
         ELSE /\ wb' = wb
              /\ pc' = "done"
    /\ UNCHANGED <<outputVars, configVars, sheet, skip_i, row_iter, row_count,
                   sentence_pairs, invalid_pairs, total_processed,
                   total_valid, total_invalid, batches, historyVars,
                   cleaned, validateVars>>

\* line 50: load_workbook opens the file, or raises (missing, unreadable or
\* corrupt file); line 55: the skip loop is entered when skip_rows > 0
load_workbook ==
    /\ pc = "created"
    /\ \E ok \in BOOLEAN :
         IF ok
         THEN /\ wb' = "open"
              /\ pc' = IF FILE_STRUCTURE.skip_rows > 0 THEN "skip" ELSE "read"
         ELSE /\ wb' = wb
              /\ pc' = "raised"
    /\ UNCHANGED <<outputVars, configVars, sheet, skip_i, row_iter, row_count,
                   sentence_pairs, invalid_pairs, total_processed,
                   total_valid, total_invalid, batches, historyVars,
                   cleaned, validateVars>>

\* lines 55-56: one iteration of the skip loop. ws.rows is a property that
\* returns a new iterator over the whole sheet on each access, so next()
\* takes the first row of the sheet (StopIteration on an empty sheet) and
\* the iterator is thrown away
SkipRow ==
    /\ pc = "skip"
    /\ skip_i < FILE_STRUCTURE.skip_rows
    /\ IF Len(sheet) = 0
       THEN /\ pc' = "raised"
            /\ skip_i' = skip_i
       ELSE /\ skip_i' = skip_i + 1
            /\ pc' = IF skip_i + 1 = FILE_STRUCTURE.skip_rows THEN "read" ELSE "skip"
    /\ UNCHANGED <<outputVars, configVars, sheet, wb, row_iter, row_count,
                   sentence_pairs, invalid_pairs, total_processed,
                   total_valid, total_invalid, batches, historyVars,
                   cleaned, validateVars>>

\* line 211: the valid buffer has reached the batch size
BatchFullLate(sp) == Len(sp) > BATCH_SIZE

BatchFull(sp) == Len(sp) >= BATCH_SIZE

\* the final yield made whatever the buffers hold
FinalBatchAlways == TRUE

\* line 218: a last batch is due
FinalBatchDueValidOnly == sentence_pairs # <<>>

FinalBatchDue == sentence_pairs # <<>> \/ invalid_pairs # <<>>

\* lines 190-215: the record is appended to one of the buffers and the
\* batch is yielded when the valid buffer is full
Classify(n, d, res, sp, ip) ==
    IF res.raised # ""
    THEN /\ pc' = "raised"
         /\ UNCHANGED <<sentence_pairs, invalid_pairs, total_processed,
                        total_valid, total_invalid, batches, validated>>
    ELSE /\ sentence_pairs' = sp
         /\ invalid_pairs' = ip
         /\ total_valid' = IF res.ok THEN total_valid + 1 ELSE total_valid
         /\ total_invalid' = IF res.ok THEN total_invalid ELSE total_invalid + 1
         /\ total_processed' = total_processed + 1
         /\ validated' = Append(validated, [row |-> n, detect |-> d])
         /\ IF BatchFull(sp)
            THEN /\ batches' = Append(batches, [valid |-> sp, invalid |-> ip])
                 /\ pc' = "yielded"
            ELSE /\ batches' = batches
                 /\ pc' = pc

\* lines 178-215: the body of the loop of process_sentence_pairs_batch for
\* the record read_excel_file yielded from physical row n; d is what detect
\* does if validate_sentence_pair gets as far as calling it
ProcessRow(data, n) ==
    \E source_sentence \in {clean_sentence(data["source_text"])} :
    \E target_sentence \in {clean_sentence(data["target_text"])} :
    \E d \in IF DetectReached(source_sentence, target_sentence)
              THEN DetectOutcomes ELSE {"not called"} :
    \E res \in {validate_sentence_pair(source_sentence, target_sentence, d)} :
        Classify(n, d, res,
                 IF res.ok
                 THEN Append(sentence_pairs,
                             ValidPair(data, source_sentence, target_sentence, n))
                 ELSE sentence_pairs,
                 IF res.ok
                 THEN invalid_pairs
                 ELSE Append(invalid_pairs,
                             InvalidPair(data, source_sentence, target_sentence,
                                         res.reason, n)))

\* ReadRow with the loop left at the first row that has too few columns
ReadRowStopAtNarrow ==
    /\ pc = "read"
    /\ row_iter < Len(sheet)
    /\ LET n == row_iter + 1
           row == sheet[n]
       IN  IF Len(row) < max_column_index + 1
           THEN /\ row_iter' = Len(sheet)
                /\ dropped_rows' = Append(dropped_rows, n)
                /\ UNCHANGED <<row_count, yielded_rows, validated, batchVars>>
           ELSE /\ row_iter' = row_iter + 1
                /\ row_count' = row_count + 1
                /\ \E data \in {RowData(row)} :
                     IF AllBlank(data)
                     THEN /\ dropped_rows' = Append(dropped_rows, n)
                          /\ UNCHANGED <<yielded_rows, validated, batchVars>>
                     ELSE /\ yielded_rows' = Append(yielded_rows, n)
                          /\ dropped_rows' = dropped_rows
                          /\ ProcessRow(data, n)
    /\ UNCHANGED <<outputVars, configVars, sheet, wb, skip_i, cleaned, validateVars>>

\* lines 66-83 and 177-215: the data loop takes the next row of a new
\* iterator over the sheet; a row with enough columns that is not blank is
\* yielded to process_sentence_pairs_batch, which runs until its next yield
ReadRow ==
    /\ pc = "read"
    /\ row_iter < Len(sheet)
    /\ row_iter' = row_iter + 1
    /\ LET n == row_iter + 1
           row == sheet[n]
       IN  IF Len(row) < max_column_index + 1
           THEN /\ dropped_rows' = Append(dropped_rows, n)
                /\ UNCHANGED <<row_count, yielded_rows, validated, batchVars>>
           ELSE /\ row_count' = row_count + 1
                /\ \E data \in {RowData(row)} :
                     IF AllBlank(data)
                     THEN /\ dropped_rows' = Append(dropped_rows, n)
                          /\ UNCHANGED <<yielded_rows, validated, batchVars>>
                     ELSE /\ yielded_rows' = Append(yielded_rows, n)
                          /\ dropped_rows' = dropped_rows
                          /\ ProcessRow(data, n)
    /\ UNCHANGED <<outputVars, configVars, sheet, wb, skip_i, cleaned, validateVars>>

\* lines 88-90: reading a row fails (a corrupt part of the file, an I/O
\* error); the error is logged and raised again
ReadFail ==
    /\ pc = "read"
    /\ pc' = "raised"
    /\ UNCHANGED <<outputVars, configVars, sheet, readerVars, sentence_pairs,
                   invalid_pairs, total_processed, total_valid,
                   total_invalid, batches, historyVars, cleaned,
                   validateVars>>

\* Resume with the valid buffer kept
ResumeKeepValid ==
    /\ pc = "yielded"
    /\ sentence_pairs' = sentence_pairs
    /\ invalid_pairs' = <<>>
    /\ pc' = "read"
    /\ UNCHANGED <<outputVars, configVars, sheet, readerVars, total_processed,
                   total_valid, total_invalid, batches, historyVars,
                   cleaned, validateVars>>

ResumeKeepInvalid ==
    /\ pc = "yielded"
    /\ sentence_pairs' = <<>>
    /\ pc' = "read"
    /\ UNCHANGED <<outputVars, configVars, sheet, readerVars, invalid_pairs,
                   total_processed, total_valid, total_invalid, batches,
                   historyVars, cleaned, validateVars>>

\* lines 213-215: the caller asks for the next batch; the generator resets
\* its buffers and goes on reading
Resume ==
    /\ pc = "yielded"
    /\ sentence_pairs' = <<>>
    /\ invalid_pairs' = <<>>
    /\ pc' = "read"
    /\ UNCHANGED <<outputVars, configVars, sheet, readerVars, total_processed,
                   total_valid, total_invalid, batches, historyVars,
                   cleaned, validateVars>>

\* lines 85-86 and 217-220: the rows are exhausted; read_excel_file closes
\* the workbook and returns, process_sentence_pairs_batch yields what its
\* buffers hold
Exhaust ==
    /\ pc = "read"
    /\ row_iter = Len(sheet)
    /\ wb' = "closed"
    /\ IF FinalBatchDue
       THEN /\ batches' = Append(batches, [valid |-> sentence_pairs,
                                            invalid |-> invalid_pairs])
            /\ pc' = "yielded_last"
       ELSE /\ batches' = batches
            /\ pc' = "done"
    /\ UNCHANGED <<outputVars, configVars, sheet, skip_i, row_iter, row_count,
                   sentence_pairs, invalid_pairs, total_processed,
                   total_valid, total_invalid, historyVars, cleaned,
                   validateVars>>

\* line 220: the caller asks for a batch after the last one; the generator
\* returns
Finish ==
    /\ pc = "yielded_last"
    /\ pc' = "done"
    /\ UNCHANGED <<outputVars, configVars, sheet, readerVars, sentence_pairs,
                   invalid_pairs, total_processed, total_valid,
                   total_invalid, batches, historyVars, cleaned,
                   validateVars>>

\* the caller abandons the generator after a batch: GeneratorExit is raised
\* at the yield of line 213 or 220 and at the yield of line 83; it is not an
\* Exception, no handler or finally clause runs, line 86 is not reached
Abandon ==
    /\ pc \in {"yielded", "yielded_last"}
    /\ pc' = "abandoned"
    /\ UNCHANGED <<outputVars, configVars, sheet, readerVars, sentence_pairs,
                   invalid_pairs, total_processed, total_valid,
                   total_invalid, batches, historyVars, cleaned,
                   validateVars>>

PipelineStart ==
    /\ wb = "none"
    /\ skip_i = 0
    /\ row_iter = 0
    /\ row_count = 0
    /\ pc = "created"
    /\ sentence_pairs = <<>>
    /\ invalid_pairs = <<>>
    /\ total_processed = 0
    /\ total_valid = 0
    /\ total_invalid = 0
    /\ batches = <<>>
    /\ yielded_rows = <<>>
    /\ dropped_rows = <<>>
    /\ validated = <<>>

NoClean == cleaned = <<>>

NoSave ==
    /\ invalid_file_exists = FALSE
    /\ invalid_file = <<>>
    /\ save_calls = <<>>

NoResults ==
    /\ pf_pc = "idle"
    /\ sentence_pairs_n = 0
    /\ index = 0
    /\ stop_processing = FALSE
    /\ output_file_exists = FALSE
    /\ output_file = <<>>
    /\ batch_results = <<>>
    /\ analysed = <<>>
    /\ started_after_stop = FALSE

\* no configuration file is looked at
NoLoad ==
    /\ config_file = [state |-> "absent", version |-> "", credentials |-> "missing",
                      values |-> <<>>]
    /\ require_all_fields = TRUE
    /\ loaded = <<>>
    /\ processor = <<>>

NoPath ==
    /\ output_path = <<>>
    /\ invalid_path = <<>>

NoAnalyze ==
    /\ attempt = 0
    /\ ai_pc = "idle"
    /\ ai_slept = 0
    /\ ai_return = <<>>
    /\ ai_log = <<>>

NoExtract ==
    /\ input_file = [readable |-> FALSE, rows |-> <<>>]
    /\ df = <<>>
    /\ df_i = 0
    /\ core_pairs = <<>>
    /\ core_invalid_pairs = <<>>
    /\ core_invalid_exists = FALSE
    /\ core_invalid_file = <<>>

\* gui.py lines 626-631 and 640-702: the window as it is built
NoGui ==
    /\ is_processing = FALSE
    /\ start_btn = "normal"
    /\ stop_btn = "disabled"
    /\ select_input_btn = "normal"
    /\ select_output_btn = "normal"
    /\ settings_btn = "normal"
    /\ input_file_path = "None"
    /\ output_file_path = "None"
    /\ gui_config = FALSE
    /\ processors = <<>>
    /\ gui_processor = 0
    /\ threads = {}
    /\ after_queue = <<>>
    /\ stop_requests = {}

NoSetup ==
    /\ file_at_start = <<>>
    /\ setup_branch = "none"
    /\ setup_return = <<>>

NoOutput ==
    /\ NoSetup
    /\ NoSave
    /\ NoResults
    /\ NoLoad
    /\ NoPath
    /\ NoAnalyze
    /\ NoExtract
    /\ NoGui

NoValidate ==
    /\ v_source = <<>>
    /\ v_target = <<>>
    /\ v_result = <<>>

\* Scenario A of the specification: two header rows, then the two data rows
ScenarioRow1 == <<DocA, Hello, DocB, Nihao>>
ScenarioRow2 == <<DocA, Short, DocB, Duan>>

ScenarioA ==
    /\ MIN_SENTENCE_LENGTH = DefaultMinLength
    /\ MAX_SENTENCE_LENGTH = DefaultMaxLength
    /\ FILTER_INCOMPLETE_SENTENCES = TRUE
    /\ BATCH_SIZE = 50
    /\ FILE_STRUCTURE = [skip_rows |-> 2, columns |-> DefaultColumns,
                         language |-> DefaultLanguage]
    /\ Len(sheet) = 4
    /\ sheet[3] = ScenarioRow1
    /\ sheet[4] = ScenarioRow2

InitBounded ==
    /\ MIN_SENTENCE_LENGTH = DefaultMinLength
    /\ MAX_SENTENCE_LENGTH = DefaultMaxLength
    /\ FILTER_INCOMPLETE_SENTENCES = TRUE
    /\ BATCH_SIZE \in 1..MaxBatch
    /\ FILE_STRUCTURE \in [skip_rows : 0..MaxSkip, columns : ColumnLayouts,
                            language : {DefaultLanguage}]
    /\ sheet \in Sheets

InitScenarioA ==
    /\ MIN_SENTENCE_LENGTH = DefaultMinLength
    /\ MAX_SENTENCE_LENGTH = DefaultMaxLength
    /\ FILTER_INCOMPLETE_SENTENCES = TRUE
    /\ BATCH_SIZE = 50
    /\ FILE_STRUCTURE = [skip_rows |-> 2, columns |-> DefaultColumns,
                         language |-> DefaultLanguage]
    /\ sheet \in {<<h1, h2, ScenarioRow1, ScenarioRow2>> :
                     h1 \in RowSamples, h2 \in RowSamples}

Init ==
    /\ InitBounded \/ InitScenarioA
    /\ PipelineStart
    /\ NoClean
    /\ NoValidate
    /\ NoOutput

\* ------------------------------------------------------------------------
\* clean_sentence and validate_sentence_pair called on their own
\* ------------------------------------------------------------------------
CleanAlphabet ==
    {"<", "s", ">", "/", "d", "o", "c", "#", "1", ".", " ", "U4E2D"}

\* longer inputs: a marker inside a marker, a doc# token split by a space,
\* a doc# token made of an ideograph in front of space-separated words
CleanSamples ==
    {<<"<", "<", "s", ">", "s", ">">>,
     <<"d", "o", " ", "c", "#", "1", "U4E2D">>,
     <<"d", "o", "c", "#", "U4E2D", " ", "s", " ", "s">>,
     <<"<", "s", ">", " ", "1", " ", ".", " ", "U4E2D", " ", "s", " ", "<", "/", "s", ">">>}

CleanInputs ==
    UNION {[1..n -> CleanAlphabet] : n \in 0..MaxLen} \cup CleanSamples

\* one more call of clean_sentence, on the result of the previous one
Clean ==
    /\ cleaned # <<>>
    /\ Len(cleaned) < 3
    /\ cleaned' = Append(cleaned, clean_sentence(cleaned[Len(cleaned)]))
    /\ UNCHANGED <<outputVars, configVars, pipelineVars, validateVars>>

Rep(n) == [i \in 1..n |-> "a"]

TailChars == {"a", ".", ")", " "}

Tails == UNION {[1..n -> TailChars] : n \in 0..2}

ValidateSources == {Rep(n) \o t : n \in 0..MaxBody, t \in Tails}

ValidateTargets == {Rep(n) : n \in {0, 2, 3, 12, 13}}

\* number of calls of validate_sentence_pair made on one pair
MaxCalls == 2

\* one call of validate_sentence_pair; the pair and the configuration stay
\* what they are from one call to the next
Validate ==
    /\ Len(v_result) < MaxCalls
    /\ \E d \in IF DetectReached(v_source, v_target)
                 THEN DetectOutcomes ELSE {"not called"} :
         v_result' = Append(v_result,
                            [res |-> validate_sentence_pair(v_source, v_target, d),
                             detect |-> d])
    /\ UNCHANGED <<outputVars, configVars, pipelineVars, cleaned, v_source, v_target>>

DefaultConfig ==
    /\ MIN_SENTENCE_LENGTH = DefaultMinLength
    /\ MAX_SENTENCE_LENGTH = DefaultMaxLength
    /\ FILTER_INCOMPLETE_SENTENCES = TRUE
    /\ BATCH_SIZE = DefaultBatchSize
    /\ FILE_STRUCTURE = [skip_rows |-> DefaultSkipRows,
                         columns |-> DefaultColumns,
                         language |-> DefaultLanguage]

InitClean ==
    /\ DefaultConfig
    /\ sheet = <<>>
    /\ PipelineStart
    /\ cleaned \in {<<x>> : x \in CleanInputs}
    /\ NoValidate
    /\ NoOutput

SpecClean == InitClean /\ [][Clean]_vars

InitValidate ==
    /\ MIN_SENTENCE_LENGTH \in {3, 11}
    /\ MAX_SENTENCE_LENGTH = 12
    /\ FILTER_INCOMPLETE_SENTENCES \in BOOLEAN
    /\ BATCH_SIZE = DefaultBatchSize
    /\ FILE_STRUCTURE \in [skip_rows : {DefaultSkipRows},
                            columns : {DefaultColumns},
                            language : {DefaultLanguage,
                                        [source |-> "zh-cn", target |-> "en"]}]
    /\ sheet = <<>>
    /\ PipelineStart
    /\ NoClean
    /\ v_source \in ValidateSources
    /\ v_target \in ValidateTargets
    /\ v_result = <<>>
    /\ NoOutput

SpecValidate == InitValidate /\ [][Validate]_vars

\* ------------------------------------------------------------------------
\* DataProcessor.save_invalid_pairs, called a number of times with the same
\* output file
\* ------------------------------------------------------------------------
MaxSaves == 3
MaxSaveLen == 2

\* line 232: the fieldnames of the DictWriter
InvalidFieldnames ==
    <<"source_doc_id", "target_doc_id", "reason", "source", "target">>

\* csv.DictWriter.writerow: the values of the record under the fieldnames
InvalidLine(p) == [i \in 1..Len(InvalidFieldnames) |-> p[InvalidFieldnames[i]]]

\* the invalid records the lists are made of
SavePairs ==
    {InvalidPair([source_doc_id |-> DocA, target_doc_id |-> DocB],
                 Short, Duan, ReasonPunctuation, 1),
     InvalidPair([source_doc_id |-> DocA, target_doc_id |-> DocB],
                 Hello, Nihao, ReasonMinLength(Len(Hello), Len(Nihao)), 2)}

SaveLists == UNION {[1..n -> SavePairs] : n \in 0..MaxSaveLen}

\* save_invalid_pairs with the file always opened in mode 'w'
save_invalid_pairs_overwrite(pairs) ==
    /\ Len(save_calls) < MaxSaves
    /\ save_calls' = Append(save_calls, pairs)
    /\ IF pairs # <<>>
       THEN /\ invalid_file_exists' = TRUE
            /\ invalid_file' =
                   (IF ~invalid_file_exists THEN <<InvalidFieldnames>> ELSE <<>>)
                       \o [i \in 1..Len(pairs) |-> InvalidLine(pairs[i])]
       ELSE UNCHANGED <<invalid_file_exists, invalid_file>>
    /\ UNCHANGED exceptSave

\* lines 224-236: nothing is done for an empty list; the file is opened in
\* mode 'a' when it exists and in mode 'w' when it does not, the header is
\* written when it did not exist, then the records
save_invalid_pairs(pairs) ==
    /\ Len(save_calls) < MaxSaves
    /\ save_calls' = Append(save_calls, pairs)
    /\ IF pairs # <<>>
       THEN /\ invalid_file_exists' = TRUE
            /\ invalid_file' =
                   (IF invalid_file_exists THEN invalid_file ELSE <<>>)
                       \o (IF ~invalid_file_exists THEN <<InvalidFieldnames>> ELSE <<>>)
                       \o [i \in 1..Len(pairs) |-> InvalidLine(pairs[i])]
       ELSE UNCHANGED <<invalid_file_exists, invalid_file>>
    /\ UNCHANGED exceptSave

\* one call, with any list
SaveBatch == \E pairs \in SaveLists : save_invalid_pairs(pairs)

InitSave ==
    /\ DefaultConfig
    /\ sheet = <<>>
    /\ PipelineStart
    /\ NoClean
    /\ NoValidate
    /\ NoSetup
    /\ NoGui
    /\ NoExtract
    /\ NoAnalyze
    /\ NoSave
    /\ NoPath
    /\ NoResults
    /\ NoLoad

SpecSave == InitSave /\ [][SaveBatch]_vars

\* ------------------------------------------------------------------------
\* CoreProcessor.process_file, lines 279-344: the results file
\* ------------------------------------------------------------------------
MaxPairs == 3

\* core.py line 26 sets BATCH_SIZE to 100; the model flushes the buffer at
\* a size its runs reach
ResultBatchSize == 2

\* lines 280-282
ResultFieldnames ==
    <<"doc_id", "english_sentence", "chinese_sentence",
      "identified_nominalization_en", "nominalization_type",
      "translation_technique">>

\* the elements a list returned by analyze_sentence_with_ai may hold: the
\* list is whatever json.loads made of the reply (line 161), so an element
\* is an object, with or without the expected keys, or not an object
FindingFull ==
    [Identified_Nominalization_EN |-> "decision",
     Nominalization_Type |-> "deverbal",
     Translation_Technique |-> "shift"]

FindingPartial == [Identified_Nominalization_EN |-> "growth"]

Findings == {FindingFull, FindingPartial}

NotAnObject == [not_an_object |-> "text"]

Items == Findings \cup {NotAnObject}

\* what one call of analyze_sentence_with_ai returns: [] after an error, an
\* empty reply or a reply without list, else the parsed list
AnalysisResults == UNION {[1..n -> Items] : n \in 0..2}

\* dict.get(key, 'N/A')
GetOrNA(item, key) == IF key \in DOMAIN item THEN item[key] ELSE "N/A"

\* lines 309-316: the row of one finding of pair k; the field pair stands
\* for doc_id, english_sentence and chinese_sentence, copied from the pair
ResultRow(k, result_item) ==
    [pair |-> k,
     identified_nominalization_en |->
         GetOrNA(result_item, "Identified_Nominalization_EN"),
     nominalization_type |-> GetOrNA(result_item, "Nominalization_Type"),
     translation_technique |-> GetOrNA(result_item, "Translation_Technique")]

\* lines 319-326: the row of a pair without finding
PlaceholderRow(k) ==
    [pair |-> k,
     identified_nominalization_en |-> "AI_NO_RESULT_OR_ERROR",
     nominalization_type |-> "N/A",
     translation_technique |-> "N/A"]

\* lines 307-327: the rows appended to batch_results for pair k, up to the
\* first element that is not an object (result_item.get raises there)
RECURSIVE RowsUntilBad(_, _)
RowsUntilBad(k, results) ==
    IF results = <<>> \/ Head(results) = NotAnObject THEN <<>>
    ELSE <<ResultRow(k, Head(results))>> \o RowsUntilBad(k, Tail(results))

HasBadItem(results) == \E i \in 1..Len(results) : results[i] = NotAnObject

\* lines 284-286: the results file is opened in mode 'w' and the header is
\* written; a failing open is caught at line 342 and process_file returns
\* False
OpenResults ==
    /\ pf_pc = "extracted"
    /\ \E ok \in BOOLEAN :
         IF ok
         THEN /\ output_file_exists' = TRUE
              /\ output_file' = <<ResultFieldnames>>
              /\ pf_pc' = "loop"
         ELSE /\ UNCHANGED <<output_file_exists, output_file>>
              /\ pf_pc' = "returned False"
    /\ UNCHANGED <<sentence_pairs_n, index, stop_processing, batch_results,
                   analysed, started_after_stop>>
    /\ UNCHANGED exceptResult

\* where process_file is while it runs
Running == {"called", "rows", "extracted", "loop", "checked", "in flight"}

\* lines 346-348, called from the GUI thread (gui.py lines 800-804) or from
\* the hotkey thread (cli.py line 30) at any point of process_file
stop ==
    /\ pf_pc \in Running
    /\ ~stop_processing
    /\ stop_processing' = TRUE
    /\ UNCHANGED <<pf_pc, sentence_pairs_n, index, output_file_exists,
                   output_file, batch_results, analysed, started_after_stop>>
    /\ UNCHANGED exceptResult

\* cli.py lines 21-26, the handler of SIGINT and SIGTERM: it runs in the main
\* thread, on top of process_file, calls stop() and then sys.exit(0). The
\* SystemExit leaves process_file through the with block, which closes the
\* file; it is no Exception, so line 342 does not catch it, and lines
\* 335-337 are not run: the buffer is dropped with the frame
signal_handler ==
    /\ pf_pc \in Running
    /\ stop_processing' = TRUE
    /\ pf_pc' = "exited"
    /\ UNCHANGED <<sentence_pairs_n, index, output_file_exists, output_file,
                   batch_results, analysed, started_after_stop>>
    /\ UNCHANGED exceptResult

\* lines 290-300: the loop takes the next pair and tests the stop flag; the
\* log lines and the pause of line 300 come between the test and the call
BeginIteration ==
    /\ pf_pc = "loop"
    /\ index < sentence_pairs_n
    /\ ~stop_processing
    /\ pf_pc' = "checked"
    /\ UNCHANGED <<sentence_pairs_n, index, stop_processing,
                   output_file_exists, output_file, batch_results, analysed,
                   started_after_stop>>
    /\ UNCHANGED exceptResult

\* line 302: analyze_sentence_with_ai is called
StartCall ==
    /\ pf_pc = "checked"
    /\ pf_pc' = "in flight"
    /\ started_after_stop' = (started_after_stop \/ stop_processing)
    /\ UNCHANGED <<sentence_pairs_n, index, stop_processing,
                   output_file_exists, output_file, batch_results, analysed>>
    /\ UNCHANGED exceptResult

\* lines 302-333: the call returns and its findings are turned into rows.
\* An element that is not an object makes result_item.get raise AttributeError: the
\* with block closes the file, the buffer is dropped with the frame, and
\* line 342 turns the error into the return value False
AnalysePair ==
    /\ pf_pc = "in flight"
    /\ \E analysis_results \in AnalysisResults :
         /\ analysed' = Append(analysed, analysis_results)
         /\ IF HasBadItem(analysis_results)
            THEN /\ batch_results' =
                        batch_results \o RowsUntilBad(index + 1, analysis_results)
                 /\ pf_pc' = "returned False"
                 /\ UNCHANGED <<index, output_file>>
            ELSE \E rows \in {IF analysis_results # <<>>
                               THEN RowsUntilBad(index + 1, analysis_results)
                               ELSE <<PlaceholderRow(index + 1)>>} :
                   /\ IF Len(batch_results \o rows) >= ResultBatchSize
                      THEN /\ output_file' = output_file \o batch_results \o rows
                           /\ batch_results' = <<>>
                      ELSE /\ batch_results' = batch_results \o rows
                           /\ output_file' = output_file
                   /\ index' = index + 1
                   /\ pf_pc' = "loop"
    /\ UNCHANGED <<sentence_pairs_n, stop_processing, output_file_exists,
                   started_after_stop>>
    /\ UNCHANGED exceptResult

\* lines 291-293 and 335-341: the loop ends, by exhaustion or by the stop
\* flag, the rows left in the buffer are written, the file is closed and
\* process_file returns True
FinishResults ==
    /\ pf_pc = "loop"
    /\ index = sentence_pairs_n \/ stop_processing
    /\ output_file' = output_file \o batch_results
    /\ batch_results' = <<>>
    /\ pf_pc' = "returned True"
    /\ UNCHANGED <<sentence_pairs_n, index, stop_processing,
                   output_file_exists, analysed, started_after_stop>>
    /\ UNCHANGED exceptResult

InitResults ==
    /\ DefaultConfig
    /\ sheet = <<>>
    /\ PipelineStart
    /\ NoClean
    /\ NoValidate
    /\ NoSetup
    /\ NoGui
    /\ NoExtract
    /\ NoAnalyze
    /\ NoSave
    /\ NoPath
    /\ NoLoad
    /\ pf_pc = "extracted"
    /\ sentence_pairs_n \in 0..MaxPairs
    /\ index = 0
    /\ stop_processing = FALSE
    /\ output_file_exists = FALSE
    /\ output_file = <<>>
    /\ batch_results = <<>>
    /\ analysed = <<>>
    /\ started_after_stop = FALSE

NextResults ==
    \/ OpenResults
    \/ stop
    \/ signal_handler
    \/ BeginIteration
    \/ StartCall
    \/ AnalysePair
    \/ FinishResults

SpecResults == InitResults /\ [][NextResults]_vars

\* ------------------------------------------------------------------------
\* ConfigManager.load_config and the DataProcessor built from what it
\* returns. A JSON number is written in tenths (2000.5 is 20005), so that
\* int() has something to cut off
\* ------------------------------------------------------------------------
Number(whole, tenths) == whole * 10 + tenths

\* int(value), lines 187-191, as a number again
int(value) == Number(value \div 10, 0)

\* config_manager.py line 8
CURRENT_VERSION == "1.0.0"

LimitKeys == {"min_sentence_length", "max_sentence_length", "batch_size"}

\* config_schema, lines 47-78: the defaults and the ranges of the limits
SchemaDefault ==
    [min_sentence_length |-> Number(10, 0),
     max_sentence_length |-> Number(500, 0),
     batch_size |-> Number(500, 0)]

SchemaMin ==
    [min_sentence_length |-> Number(1, 0),
     max_sentence_length |-> Number(1, 0),
     batch_size |-> Number(50, 0)]

HasSchemaMax(field) == field = "batch_size"

SchemaMax == [batch_size |-> Number(2000, 0)]

\* DataProcessor.__init__, lines 14-17: the defaults of config.get
ProcessorDefault ==
    [min_sentence_length |-> Number(10, 0),
     max_sentence_length |-> Number(500, 0),
     batch_size |-> Number(500, 0)]

\* the values a configuration file may give to a limit
FileValues ==
    [min_sentence_length |-> {Number(0, 0), Number(10, 0), Number(600, 0)},
     max_sentence_length |-> {Number(5, 0), Number(10, 5), Number(500, 0)},
     batch_size |-> {Number(49, 0), Number(50, 0), Number(2000, 0),
                     Number(2000, 5)}]

AllFileValues == UNION {FileValues[k] : k \in LimitKeys}

\* the limits of a configuration file: any of the keys may be absent
FileLimits ==
    UNION {{f \in [D -> AllFileValues] : \A k \in D : f[k] \in FileValues[k]} :
               D \in SUBSET LimitKeys}

ConfigFiles ==
    {[state |-> "absent", version |-> "", credentials |-> "missing",
      values |-> <<>>],
     [state |-> "broken", version |-> "", credentials |-> "missing",
      values |-> <<>>]}
    \cup [state : {"ok"}, version : {CURRENT_VERSION, "0.9.0"},
          credentials : {"present", "empty", "missing"},
          values : FileLimits]

\* lines 171-209 for one field of the configuration: the type check turns
\* the value into an int, the range checks follow, and max_sentence_length
\* is compared with min_sentence_length when the configuration has that key
FieldAccepted(config, field) ==
    LET value == int(config[field])
    IN  /\ value >= SchemaMin[field]
        /\ HasSchemaMax(field) => value <= SchemaMax[field]
        /\ (field = "max_sentence_length"
                /\ "min_sentence_length" \in DOMAIN config) =>
               value > config["min_sentence_length"]

\* validate_field_values, lines 161-215
validate_field_values(config) ==
    \A field \in DOMAIN config : FieldAccepted(config, field)

\* validate_config, lines 217-248: the required fields (api_endpoint and
\* api_key) must be there and not empty when require_all_fields is set
validate_config(file) ==
    /\ require_all_fields => file.credentials = "present"
    /\ validate_field_values(file.values)

\* update_config, lines 255-288: a file of another version gets the default
\* of every key it lacks and the current version
Merged(values) ==
    [k \in LimitKeys |-> IF k \in DOMAIN values THEN values[k]
                          ELSE SchemaDefault[k]]

update_config(file) ==
    IF file.version = CURRENT_VERSION THEN file
    ELSE [state |-> "ok", version |-> CURRENT_VERSION,
          credentials |-> IF file.credentials = "missing" THEN "empty"
                          ELSE file.credentials,
          values |-> Merged(file.values)]

\* create_default_config, lines 146-159
DefaultFile ==
    [state |-> "ok", version |-> CURRENT_VERSION, credentials |-> "empty",
     values |-> SchemaDefault]

Rejected == [accepted |-> FALSE, config |-> <<>>]

\* load_config, lines 290-323
load_config ==
    /\ loaded = <<>>
    /\ IF config_file.state = "absent"
       THEN /\ config_file' = DefaultFile
            /\ loaded' = <<Rejected>>
       ELSE IF config_file.state = "broken"
       THEN /\ config_file' = config_file
            /\ loaded' = <<Rejected>>
       ELSE \E saved \in IF config_file.version = CURRENT_VERSION
                          THEN {TRUE} ELSE BOOLEAN :
              IF ~saved
              THEN /\ config_file' = config_file
                   /\ loaded' = <<Rejected>>
              ELSE \E updated \in {update_config(config_file)} :
                     /\ config_file' = updated
                     /\ loaded' = IF validate_config(updated)
                                  THEN <<[accepted |-> TRUE,
                                          config |-> updated.values]>>
                                  ELSE <<Rejected>>
    /\ UNCHANGED <<require_all_fields, processor>>
    /\ UNCHANGED exceptLoad

\* config.get(key, default)
GetLimit(config, key) ==
    IF key \in DOMAIN config THEN config[key] ELSE ProcessorDefault[key]

\* DataProcessor.__init__ on the configuration load_config returned
DataProcessorInit ==
    /\ loaded # <<>>
    /\ loaded[1].accepted
    /\ processor = <<>>
    /\ processor' =
           <<[MIN_SENTENCE_LENGTH |-> GetLimit(loaded[1].config, "min_sentence_length"),
              MAX_SENTENCE_LENGTH |-> GetLimit(loaded[1].config, "max_sentence_length"),
              BATCH_SIZE |-> GetLimit(loaded[1].config, "batch_size")]>>
    /\ UNCHANGED <<config_file, require_all_fields, loaded>>
    /\ UNCHANGED exceptLoad

InitLoad ==
    /\ DefaultConfig
    /\ sheet = <<>>
    /\ PipelineStart
    /\ NoClean
    /\ NoValidate
    /\ NoSetup
    /\ NoGui
    /\ NoExtract
    /\ NoAnalyze
    /\ NoSave
    /\ NoPath
    /\ NoResults
    /\ config_file \in ConfigFiles
    /\ require_all_fields \in BOOLEAN
    /\ loaded = <<>>
    /\ processor = <<>>

NextLoad ==
    \/ load_config
    \/ DataProcessorInit

SpecLoad == InitLoad /\ [][NextLoad]_vars

\* ------------------------------------------------------------------------
\* The path of the invalid-pairs file: output_file.replace('.csv',
\* '_invalid.csv'), data_processor.py line 225 and core.py line 270
\* ------------------------------------------------------------------------
MaxPath == 5

PathChars == {"r", ".", "c", "s", "v", "t"}

OutputPaths == UNION {[1..n -> PathChars] : n \in 1..MaxPath}

\* str.replace(old, new): every occurrence of old, left to right, without
\* overlap
RECURSIVE Replace(_, _, _, _)
Replace(t, i, old, new) ==
    IF i > Len(t) THEN <<>>
    ELSE IF StartsWithAt(t, i, old)
         THEN new \o Replace(t, i + Len(old), old, new)
         ELSE <<t[i]>> \o Replace(t, i + 1, old, new)

DotCsv == <<".", "c", "s", "v">>

InvalidSuffix == <<"_", "i", "n", "v", "a", "l", "i", "d", ".", "c", "s", "v">>

\* the file the invalid pairs are written to
InvalidFileOf(file_name) == Replace(file_name, 1, DotCsv, InvalidSuffix)

DeriveInvalidFile ==
    /\ invalid_path = <<>>
    /\ invalid_path' = <<InvalidFileOf(output_path)>>
    /\ UNCHANGED output_path
    /\ UNCHANGED exceptPath

InitPath ==
    /\ DefaultConfig
    /\ sheet = <<>>
    /\ PipelineStart
    /\ NoClean
    /\ NoValidate
    /\ NoSetup
    /\ NoGui
    /\ NoExtract
    /\ NoAnalyze
    /\ NoSave
    /\ NoResults
    /\ NoLoad
    /\ output_path \in OutputPaths
    /\ invalid_path = <<>>

SpecPath == InitPath /\ [][DeriveInvalidFile]_vars

\* ------------------------------------------------------------------------
\* CoreProcessor.analyze_sentence_with_ai, lines 140-180: one call
\* ------------------------------------------------------------------------
\* line 140
max_retries == 3

\* requests.exceptions.RequestException: no connection, the timeout of 60 s,
\* an error status (raise_for_status)
RequestExceptions == {"ConnectionError", "Timeout", "HTTPError"}

\* what one HTTP attempt can come to: a RequestException; another error
\* while the reply is taken apart (choices empty, content not a string);
\* an empty content; a content without [...]; a [...] that json.loads
\* rejects; a parsed list
AttemptFailures ==
    {[kind |-> k, value |-> <<>>] :
        k \in RequestExceptions
              \cup {"OtherError", "EmptyContent", "NoList", "JSONDecodeError"}}

AttemptOutcomes ==
    AttemptFailures \cup {[kind |-> "Parsed", value |-> v] : v \in AnalysisResults}

\* the same loop with a retry after every kind of failure
AttemptRetryAll ==
    /\ ai_pc = "called"
    /\ attempt < max_retries
    /\ \E outcome \in AttemptOutcomes :
         /\ ai_log' = Append(ai_log, outcome)
         /\ IF outcome.kind # "Parsed" /\ attempt < max_retries - 1
            THEN /\ ai_slept' = ai_slept + 5 * (attempt + 1)
                 /\ attempt' = attempt + 1
                 /\ UNCHANGED <<ai_pc, ai_return>>
            ELSE /\ ai_return' = <<outcome.value>>
                 /\ ai_pc' = "returned"
                 /\ UNCHANGED <<attempt, ai_slept>>
    /\ UNCHANGED exceptAnalyze

\* lines 141-179: one pass of the retry loop. A RequestException is logged
\* and, unless it was the last attempt, followed by a pause and by the next
\* attempt; every other outcome returns: the parsed list, or [] for an
\* empty content, a content without list, a JSON error or any other
\* Exception
AttemptRequest ==
    /\ ai_pc = "called"
    /\ attempt < max_retries
    /\ \E outcome \in AttemptOutcomes :
         /\ ai_log' = Append(ai_log, outcome)
         /\ IF outcome.kind \in RequestExceptions /\ attempt < max_retries - 1
            THEN /\ ai_slept' = ai_slept + 5 * (attempt + 1)
                 /\ attempt' = attempt + 1
                 /\ UNCHANGED <<ai_pc, ai_return>>
            ELSE /\ ai_return' = <<outcome.value>>
                 /\ ai_pc' = "returned"
                 /\ UNCHANGED <<attempt, ai_slept>>
    /\ UNCHANGED exceptAnalyze

InitAnalyze ==
    /\ DefaultConfig
    /\ sheet = <<>>
    /\ PipelineStart
    /\ NoClean
    /\ NoValidate
    /\ NoSetup
    /\ NoGui
    /\ NoExtract
    /\ NoSave
    /\ NoResults
    /\ NoLoad
    /\ NoPath
    /\ attempt = 0
    /\ ai_pc = "called"
    /\ ai_slept = 0
    /\ ai_return = <<>>
    /\ ai_log = <<>>

SpecAnalyze == InitAnalyze /\ [][AttemptRequest]_vars

\* ------------------------------------------------------------------------
\* CoreProcessor.process_file, lines 185-278: reading the sheet, sorting its
\* rows into sentence_pairs and invalid_pairs, writing the invalid pairs
\* ------------------------------------------------------------------------
MaxDf == 2

\* A row of the sheet below the six skipped ones, by what lines 199-257
\* look at: whether all its cells are empty, whether the cleaned English
\* text ends in one of . ! ? ; , , the lengths of the two cleaned texts, and
\* what detect makes of each text if it is asked
ValidRow ==
    [blank |-> FALSE, ends |-> TRUE, eng_len |-> 10, chi_len |-> 10,
     eng_detect |-> "en", chi_detect |-> "zh-cn"]

BlankRow ==
    [blank |-> TRUE, ends |-> FALSE, eng_len |-> 3, chi_len |-> 3,
     eng_detect |-> "LangDetectException",
     chi_detect |-> "LangDetectException"]

RowLengths == {2, 9, 501}

DfRows ==
    {ValidRow, BlankRow, [ValidRow EXCEPT !.ends = FALSE]}
    \cup {[ValidRow EXCEPT !.eng_len = n] : n \in RowLengths}
    \cup {[ValidRow EXCEPT !.chi_len = n] : n \in RowLengths}
    \cup {[ValidRow EXCEPT !.eng_detect = d] :
              d \in {"zh-cn", "LangDetectException", "OSError"}}
    \cup {[ValidRow EXCEPT !.chi_detect = d] :
              d \in {"en", "zh-tw", "OSError"}}

InputFiles ==
    {[readable |-> FALSE, rows |-> <<>>]}
    \cup {[readable |-> TRUE, rows |-> r] :
              r \in UNION {[1..n -> DfRows] : n \in 0..MaxDf}}

\* what a file left by an earlier run holds
OldContent == <<<<"earlier run">>>>

\* line 191: df.dropna(how='all')
dropna(rows) == SelectSeq(rows, LAMBDA r : ~r.blank)

\* core.py lines 42-68, on a text of n characters
CoreIsValidLanguage(n, expected_lang, d) ==
    IF n < LanguageMinLength THEN "False"
    ELSE IF d = "LangDetectException" THEN "False"
    ELSE IF d = "OSError" THEN "OSError"
    ELSE IF expected_lang = "zh-cn"
         THEN (IF d \in {"zh-cn", "zh-tw", "zh"} THEN "True" ELSE "False")
         ELSE (IF d = expected_lang THEN "True" ELSE "False")

\* lines 210-264, the body of the loop for one row: the reason it is put
\* into invalid_pairs with, "valid" when it is appended to sentence_pairs,
\* "neither" when it passes every test and fails the one of line 259,
\* "raised" when detect lets an error through
RowVerdict(row) ==
    IF ~row.ends THEN "no end punctuation"
    ELSE IF row.eng_len < MIN_SENTENCE_LENGTH
              \/ row.chi_len < MIN_SENTENCE_LENGTH THEN "too short"
    ELSE IF row.eng_len > MAX_SENTENCE_LENGTH
              \/ row.chi_len > MAX_SENTENCE_LENGTH THEN "too long"
    ELSE IF CoreIsValidLanguage(row.eng_len, "en", row.eng_detect) = "OSError"
         THEN "raised"
    ELSE IF CoreIsValidLanguage(row.eng_len, "en", row.eng_detect) = "False"
         THEN "english language"
    ELSE IF CoreIsValidLanguage(row.chi_len, "zh-cn", row.chi_detect) = "OSError"
         THEN "raised"
    ELSE IF CoreIsValidLanguage(row.chi_len, "zh-cn", row.chi_detect) = "False"
         THEN "chinese language"
    ELSE IF row.eng_len > 0 /\ row.chi_len > 0 THEN "valid"
    ELSE "neither"

\* lines 185-196: pd.read_excel and dropna; an error of read_excel is
\* caught at line 342
read_excel ==
    /\ pf_pc = "called"
    /\ IF input_file.readable
       THEN /\ df' = dropna(input_file.rows)
            /\ pf_pc' = "rows"
       ELSE /\ df' = df
            /\ pf_pc' = "returned False"
    /\ UNCHANGED <<input_file, df_i, core_pairs, core_invalid_pairs,
                   core_invalid_exists, core_invalid_file>>
    /\ UNCHANGED <<sentence_pairs_n, index, stop_processing,
                   output_file_exists, output_file, batch_results, analysed,
                   started_after_stop>>
    /\ UNCHANGED exceptExtract

\* lines 198-264: one pass of for i in range(0, len(df)); the body runs
\* under if i + 1 < len(df) (line 199)
ExtractRow ==
    /\ pf_pc = "rows"
    /\ df_i < Len(df)
    /\ df_i' = df_i + 1
    /\ IF df_i + 1 < Len(df)
       THEN \E verdict \in {RowVerdict(df[df_i + 1])} :
              /\ pf_pc' = IF verdict = "raised" THEN "returned False" ELSE "rows"
              /\ core_pairs' =
                    IF verdict = "valid" THEN Append(core_pairs, df_i + 1)
                    ELSE core_pairs
              /\ core_invalid_pairs' =
                    IF verdict \in {"valid", "neither", "raised"}
                    THEN core_invalid_pairs
                    ELSE Append(core_invalid_pairs,
                                [doc_id |-> df_i + 1, reason |-> verdict])
       ELSE UNCHANGED <<pf_pc, core_pairs, core_invalid_pairs>>
    /\ UNCHANGED <<input_file, df, core_invalid_exists, core_invalid_file>>
    /\ UNCHANGED <<sentence_pairs_n, index, stop_processing,
                   output_file_exists, output_file, batch_results, analysed,
                   started_after_stop>>
    /\ UNCHANGED exceptExtract

\* lines 266-278: after the loop the invalid pairs, if any, are written to
\* a file opened in mode 'w'; an error of open is caught at line 342
WriteInvalid ==
    /\ pf_pc = "rows"
    /\ df_i = Len(df)
    /\ \E ok \in IF core_invalid_pairs = <<>> THEN {TRUE} ELSE BOOLEAN :
         IF ok
         THEN /\ pf_pc' = "extracted"
              /\ sentence_pairs_n' = Len(core_pairs)
              /\ core_invalid_exists' =
                    (core_invalid_exists \/ core_invalid_pairs # <<>>)
              /\ core_invalid_file' =
                    IF core_invalid_pairs = <<>> THEN core_invalid_file
                    ELSE <<InvalidFieldnames>> \o core_invalid_pairs
         ELSE /\ pf_pc' = "returned False"
              /\ UNCHANGED <<sentence_pairs_n, core_invalid_exists,
                             core_invalid_file>>
    /\ UNCHANGED <<input_file, df, df_i, core_pairs, core_invalid_pairs>>
    /\ UNCHANGED <<index, stop_processing, output_file_exists, output_file,
                   batch_results, analysed, started_after_stop>>
    /\ UNCHANGED exceptExtract

InitExtract ==
    /\ MIN_SENTENCE_LENGTH \in {3, DefaultMinLength}
    /\ MAX_SENTENCE_LENGTH = DefaultMaxLength
    /\ FILTER_INCOMPLETE_SENTENCES = TRUE
    /\ BATCH_SIZE = DefaultBatchSize
    /\ FILE_STRUCTURE = [skip_rows |-> DefaultSkipRows,
                         columns |-> DefaultColumns,
                         language |-> DefaultLanguage]
    /\ sheet = <<>>
    /\ PipelineStart
    /\ NoClean
    /\ NoValidate
    /\ NoSetup
    /\ NoGui
    /\ NoAnalyze
    /\ NoSave
    /\ NoPath
    /\ NoLoad
    /\ pf_pc = "called"
    /\ sentence_pairs_n = 0
    /\ index = 0
    /\ stop_processing = FALSE
    /\ output_file_exists \in BOOLEAN
    /\ output_file = IF output_file_exists THEN OldContent ELSE <<>>
    /\ batch_results = <<>>
    /\ analysed = <<>>
    /\ started_after_stop = FALSE
    /\ input_file \in InputFiles
    /\ df = <<>>
    /\ df_i = 0
    /\ core_pairs = <<>>
    /\ core_invalid_pairs = <<>>
    /\ core_invalid_exists \in BOOLEAN
    /\ core_invalid_file = IF core_invalid_exists THEN OldContent ELSE <<>>

NextExtract ==
    \/ read_excel
    \/ ExtractRow
    \/ WriteInvalid
    \/ signal_handler

SpecExtract == InitExtract /\ [][NextExtract]_vars

\* ------------------------------------------------------------------------
\* gui.py lines 716-804: the main window while files are processed
\* ------------------------------------------------------------------------
MaxRuns == 3

\* lines 716-738: a file dialog; a cancelled dialog changes nothing
select_input_file ==
    /\ select_input_btn = "normal"
    /\ \E file_path \in {"", "in.xlsx", "in2.xlsx"} :
         input_file_path' =
             IF file_path # "" THEN file_path ELSE input_file_path
    /\ UNCHANGED <<is_processing, start_btn, stop_btn, select_input_btn,
                   select_output_btn, settings_btn, output_file_path,
                   gui_config, processors, gui_processor, threads,
                   after_queue, stop_requests>>
    /\ UNCHANGED exceptGui

select_output_file ==
    /\ select_output_btn = "normal"
    /\ \E file_path \in {"", "out.csv", "out2.csv"} :
         output_file_path' =
             IF file_path # "" THEN file_path ELSE output_file_path
    /\ UNCHANGED <<is_processing, start_btn, stop_btn, select_input_btn,
                   select_output_btn, settings_btn, input_file_path,
                   gui_config, processors, gui_processor, threads,
                   after_queue, stop_requests>>
    /\ UNCHANGED exceptGui

\* lines 806-809: the settings dialog; when it closes the configuration on
\* disk is complete or not
open_settings ==
    /\ settings_btn = "normal"
    /\ gui_config' \in BOOLEAN
    /\ UNCHANGED <<is_processing, start_btn, stop_btn, select_input_btn,
                   select_output_btn, settings_btn, input_file_path,
                   output_file_path, processors, gui_processor, threads,
                   after_queue, stop_requests>>
    /\ UNCHANGED exceptGui

\* the same handler with the start button left as it is
start_processing_button_on ==
    /\ start_btn = "normal"
    /\ Len(processors) < MaxRuns
    /\ IF ~gui_config \/ input_file_path = "None" \/ output_file_path = "None"
       THEN UNCHANGED <<is_processing, start_btn, stop_btn, select_input_btn,
                        select_output_btn, settings_btn, processors,
                        gui_processor, threads>>
       ELSE /\ processors' = Append(processors, FALSE)
            /\ gui_processor' = Len(processors) + 1
            /\ is_processing' = TRUE
            /\ start_btn' = start_btn
            /\ stop_btn' = "normal"
            /\ select_input_btn' = "disabled"
            /\ select_output_btn' = "disabled"
            /\ settings_btn' = "disabled"
            /\ threads' = threads \cup {Len(processors) + 1}
    /\ UNCHANGED <<input_file_path, output_file_path, gui_config,
                   after_queue, stop_requests>>
    /\ UNCHANGED exceptGui

\* lines 740-769, the command of the start button, which Tk runs only
\* while the button is enabled: without a complete configuration or
\* without both paths it returns; else it makes a new CoreProcessor (stop
\* flag False, core.py line 15), sets the window to busy and starts the
\* worker thread
start_processing ==
    /\ start_btn = "normal"
    /\ Len(processors) < MaxRuns
    /\ IF ~gui_config \/ input_file_path = "None" \/ output_file_path = "None"
       THEN UNCHANGED <<is_processing, start_btn, stop_btn, select_input_btn,
                        select_output_btn, settings_btn, processors,
                        gui_processor, threads>>
       ELSE /\ processors' = Append(processors, FALSE)
            /\ gui_processor' = Len(processors) + 1
            /\ is_processing' = TRUE
            /\ start_btn' = "disabled"
            /\ stop_btn' = "normal"
            /\ select_input_btn' = "disabled"
            /\ select_output_btn' = "disabled"
            /\ settings_btn' = "disabled"
            /\ threads' = threads \cup {Len(processors) + 1}
    /\ UNCHANGED <<input_file_path, output_file_path, gui_config,
                   after_queue, stop_requests>>
    /\ UNCHANGED exceptGui

\* lines 771-784, in the worker thread: process_file returns True or False
\* or raises; the thread queues _processing_finished with the result, or
\* with False after an exception, and ends
run_processing ==
    /\ \E t \in threads :
         \E outcome \in {"True", "False", "raised"} :
           /\ threads' = threads \ {t}
           /\ after_queue' = Append(after_queue, outcome = "True")
    /\ UNCHANGED <<is_processing, start_btn, stop_btn, select_input_btn,
                   select_output_btn, settings_btn, input_file_path,
                   output_file_path, gui_config, processors, gui_processor,
                   stop_requests>>
    /\ UNCHANGED exceptGui

\* lines 786-798, run by the main loop for a queued callback
processing_finished ==
    /\ after_queue # <<>>
    /\ after_queue' = Tail(after_queue)
    /\ is_processing' = FALSE
    /\ start_btn' = "normal"
    /\ stop_btn' = "disabled"
    /\ select_input_btn' = "normal"
    /\ select_output_btn' = "normal"
    /\ settings_btn' = "normal"
    /\ UNCHANGED <<input_file_path, output_file_path, gui_config, processors,
                   gui_processor, threads, stop_requests>>
    /\ UNCHANGED exceptGui

\* lines 800-804, the command of the stop button: the flag of the
\* processor self.processor refers to is set (core.py lines 346-348)
gui_stop_processing ==
    /\ stop_btn = "normal"
    /\ processors' =
          IF gui_processor # 0
          THEN [processors EXCEPT ![gui_processor] = TRUE]
          ELSE processors
    /\ stop_requests' = stop_requests \cup {Len(processors)}
    /\ UNCHANGED <<is_processing, start_btn, stop_btn, select_input_btn,
                   select_output_btn, settings_btn, input_file_path,
                   output_file_path, gui_config, gui_processor, threads,
                   after_queue>>
    /\ UNCHANGED exceptGui

InitGui ==
    /\ DefaultConfig
    /\ sheet = <<>>
    /\ PipelineStart
    /\ NoClean
    /\ NoValidate
    /\ NoSetup
    /\ NoSave
    /\ NoResults
    /\ NoLoad
    /\ NoPath
    /\ NoAnalyze
    /\ NoExtract
    /\ NoGui

NextGui ==
    \/ select_input_file
    \/ select_output_file
    \/ open_settings
    \/ start_processing
    \/ run_processing
    \/ processing_finished
    \/ gui_stop_processing

SpecGui == InitGui /\ [][NextGui]_vars

\* ------------------------------------------------------------------------
\* cli.py lines 36-79: check_and_setup_config
\* ------------------------------------------------------------------------
\* lines 46-79, after load_config(require_all_fields=False) has returned:
\* without a configuration the branch is chosen by os.path.exists (line 48),
\* the first one calls create_default_config, and False is returned; with
\* one, validate_config(require_all_fields=True) asks for the required
\* fields
check_and_setup_config ==
    /\ loaded # <<>>
    /\ setup_return = <<>>
    /\ IF ~loaded[1].accepted
       THEN /\ setup_branch' = IF config_file.state = "absent"
                                THEN "first run" ELSE "configuration error"
            /\ config_file' = IF config_file.state = "absent"
                              THEN DefaultFile ELSE config_file
            /\ setup_return' = <<FALSE>>
       ELSE /\ setup_branch' = IF config_file.credentials = "present"
                                THEN "passed" ELSE "incomplete"
            /\ config_file' = config_file
            /\ setup_return' = <<config_file.credentials = "present">>
    /\ UNCHANGED <<file_at_start, require_all_fields, loaded, processor>>
    /\ UNCHANGED exceptSetup

InitSetup ==
    /\ DefaultConfig
    /\ sheet = <<>>
    /\ PipelineStart
    /\ NoClean
    /\ NoValidate
    /\ NoSave
    /\ NoResults
    /\ NoPath
    /\ NoAnalyze
    /\ NoExtract
    /\ NoGui
    /\ config_file \in ConfigFiles
    /\ require_all_fields = FALSE
    /\ loaded = <<>>
    /\ processor = <<>>
    /\ file_at_start = <<config_file>>
    /\ setup_branch = "none"
    /\ setup_return = <<>>

NextSetup ==
    \/ load_config
    \/ check_and_setup_config

SpecSetup == InitSetup /\ [][NextSetup]_vars

Next ==
    \/ load_workbook
    \/ SkipRow
    \/ ReadRow
    \/ ReadFail
    \/ Resume
    \/ Exhaust
    \/ Finish
    \/ Abandon

Spec == Init /\ [][Next]_vars

\* ------------------------------------------------------------------------
\* What the pipeline is expected to deliver, computed from the sheet and the
\* answers of the detection engine alone
\* ------------------------------------------------------------------------
RECURSIVE ConcatValid(_)
ConcatValid(bs) ==
    IF bs = <<>> THEN <<>> ELSE Head(bs).valid \o ConcatValid(Tail(bs))

RECURSIVE ConcatInvalid(_)
ConcatInvalid(bs) ==
    IF bs = <<>> THEN <<>> ELSE Head(bs).invalid \o ConcatInvalid(Tail(bs))

\* clean_sentence of every cell of the model's worksheets, computed once
CellTexts == UNION {{r[i] : i \in 1..Len(r)} : r \in RowSamples \cup {ScenarioRow1, ScenarioRow2}}

CleanedCell == [x \in CellTexts |-> clean_sentence(x)]

\* the verdict on a record: the pair it becomes, and in which list
Verdict(data, source, target, res, n) ==
    [ok |-> res.ok,
     pair |-> IF res.ok THEN ValidPair(data, source, target, n)
              ELSE InvalidPair(data, source, target, res.reason, n)]

\* the k-th record the reader yielded, cleaned and validated on its own,
\* with the answer the detection engine gave for it
Expected(k) ==
    LET n == validated[k].row
        data == RowData(sheet[n])
        source == CleanedCell[data["source_text"]]
        target == CleanedCell[data["target_text"]]
    IN  Verdict(data, source, target,
                validate_sentence_pair(source, target, validated[k].detect), n)

ExpectedAll == [k \in 1..Len(validated) |-> Expected(k)]

RECURSIVE PairsOf(_, _)
PairsOf(q, ok) ==
    IF q = <<>> THEN <<>>
    ELSE (IF Head(q).ok = ok THEN <<Head(q).pair>> ELSE <<>>)
             \o PairsOf(Tail(q), ok)

ExpectedValid == PairsOf(ExpectedAll, TRUE)

ExpectedInvalid == PairsOf(ExpectedAll, FALSE)

Increasing(q) == \A i \in 1..Len(q) : \A j \in 1..Len(q) : i < j => q[i] < q[j]

\* the physical rows that follow the first skip_rows rows
RowsAfterSkip ==
    IF Len(sheet) > FILE_STRUCTURE.skip_rows
    THEN Len(sheet) - FILE_STRUCTURE.skip_rows ELSE 0

\* ------------------------------------------------------------------------
\* Claims
\* ------------------------------------------------------------------------
\* C1: when the generator is exhausted, the valid lists of the batches, put
\* end to end in yield order, are exactly the records that pass
\* validate_sentence_pair after clean_sentence, in sheet order, none twice
\* and none missing; likewise the invalid lists and the records that fail.
C1_BatchCompleteness ==
    pc = "done" =>
        /\ [k \in 1..Len(validated) |-> validated[k].row] = yielded_rows
        /\ Increasing(yielded_rows)
        /\ ConcatValid(batches) = ExpectedValid
        /\ ConcatInvalid(batches) = ExpectedInvalid

C1_Witness ==
    /\ pc = "done"
    /\ Len(batches) >= 2
    /\ Len(ConcatValid(batches)) >= 2
    /\ Len(ConcatInvalid(batches)) >= 1

\* C2 as stated: every batch but the last holds exactly batch_size valid
\* pairs, and when fewer than batch_size rows are valid exactly one batch is
\* yielded, holding all of them.
C2_AsStated ==
    pc = "done" =>
        /\ \A k \in 1..(Len(batches) - 1) : Len(batches[k].valid) = BATCH_SIZE
        /\ Len(ExpectedValid) < BATCH_SIZE =>
               /\ Len(batches) = 1
               /\ batches[1].valid = ExpectedValid

\* C2 amended: every batch but the last holds exactly batch_size valid pairs
\* (in every state, not only at exhaustion); when fewer than batch_size rows
\* are valid, exactly one batch is yielded, holding all of them, if at
\* least one record reached validation, and no batch is yielded if none did.
C2_BatchSizing ==
    /\ \A k \in 1..(Len(batches) - 1) : Len(batches[k].valid) = BATCH_SIZE
    /\ (pc = "done" /\ Len(ExpectedValid) < BATCH_SIZE) =>
           IF validated # <<>>
           THEN Len(batches) = 1 /\ batches[1].valid = ExpectedValid
           ELSE batches = <<>>

C2_Witness ==
    /\ pc = "done"
    /\ Len(batches) = 1
    /\ Len(ExpectedValid) >= 1
    /\ Len(ExpectedValid) < BATCH_SIZE
    /\ Len(ExpectedInvalid) >= 1

\* C3: when the pipeline has run to exhaustion, valid pairs + invalid pairs
\* + rows dropped by the reader = the number of physical rows that follow
\* the first skip_rows rows.
C3_NoDataLoss ==
    pc = "done" =>
        Len(ConcatValid(batches)) + Len(ConcatInvalid(batches))
            + Len(dropped_rows) = RowsAfterSkip

\* C4: no final state of the pipeline (exhausted, failed, abandoned) leaves
\* the workbook handle open.
C4_HandleClosed ==
    pc \in {"done", "raised", "abandoned"} => wb # "open"

\* C5: no record is built from one of the first skip_rows rows, and the
\* first row the data loop considers is physical row skip_rows + 1.
C5_SkipsLeadingRows ==
    /\ \A k \in 1..Len(yielded_rows) : yielded_rows[k] > FILE_STRUCTURE.skip_rows
    /\ \A k \in 1..Len(dropped_rows) : dropped_rows[k] > FILE_STRUCTURE.skip_rows

\* C8 as stated: Scenario A yields exactly one batch, valid list [row 1],
\* invalid list [row 2] with the minimum-length reason.
C8_AsStated ==
    (ScenarioA /\ pc = "done") =>
        /\ Len(batches) = 1
        /\ [k \in 1..Len(batches[1].valid) |-> batches[1].valid[k].row] = <<3>>
        /\ [k \in 1..Len(batches[1].invalid) |-> batches[1].invalid[k].row] = <<4>>
        /\ batches[1].invalid[1].reason = ReasonMinLength(5, 1)

\* C8 amended: Scenario A yields exactly one batch; neither data row is in
\* its valid list; its invalid list ends with row 1, rejected for the
\* minimum length (its target has 5 characters), then row 2, rejected for
\* the missing terminal punctuation.
C8_ScenarioA ==
    (ScenarioA /\ pc = "done") =>
        /\ Len(batches) = 1
        /\ \A k \in 1..Len(batches[1].valid) : batches[1].valid[k].row \notin {3, 4}
        /\ LET inv == batches[1].invalid
               n == Len(inv)
           IN  /\ n >= 2
               /\ inv[n - 1] = InvalidPair(RowData(ScenarioRow1), Hello, Nihao,
                                            ReasonMinLength(12, 5), 3)
               /\ inv[n] = InvalidPair(RowData(ScenarioRow2), Short, Duan,
                                        ReasonPunctuation, 4)

C8_Witness ==
    /\ ScenarioA
    /\ pc = "done"
    /\ Len(batches) = 1
    /\ Len(batches[1].invalid) = 2

\* C9: an input with no valid row and at least one invalid row yields
\* exactly one batch, with an empty valid list and every invalid row.
C9_InvalidOnlyBatch ==
    (pc = "done" /\ Len(ExpectedValid) = 0 /\ Len(ExpectedInvalid) >= 1) =>
        /\ Len(batches) = 1
        /\ batches[1].valid = <<>>
        /\ batches[1].invalid = ExpectedInvalid

C9_Witness ==
    /\ pc = "done"
    /\ Len(ExpectedValid) = 0
    /\ Len(ExpectedInvalid) >= 2
    /\ Len(batches) = 1

\* ------------------------------------------------------------------------
\* The rules of validate_sentence_pair, each stated on its own
\* ------------------------------------------------------------------------
\* the source ends, ignorable characters apart, in a terminal punctuation mark
EndsInPunctuation(t) ==
    \E i \in 1..Len(t) :
        /\ t[i] \in TerminalPunctuation
        /\ \A j \in (i + 1)..Len(t) : t[j] \in IgnoreChars

HasSignificant(t) == \E i \in 1..Len(t) : t[i] \notin IgnoreChars

Rule1Fails == FILTER_INCOMPLETE_SENTENCES /\ ~EndsInPunctuation(v_source)

Rule2Fails ==
    Len(v_source) < MIN_SENTENCE_LENGTH \/ Len(v_target) < MIN_SENTENCE_LENGTH

Rule3Fails ==
    Len(v_source) > MAX_SENTENCE_LENGTH \/ Len(v_target) > MAX_SENTENCE_LENGTH

Rule4Fails ==
    v_result # <<>> /\
    \/ Len(strip(v_source)) < LanguageMinLength
    \/ v_result[1].detect = "LangDetectException"
    \/ v_result[1].detect \in {"en", "zh-cn", "zh-tw"}
           /\ IF SOURCE_LANG = "zh-cn" THEN v_result[1].detect = "en"
              ELSE v_result[1].detect # SOURCE_LANG

\* C6: the rules are evaluated in the order completeness, minimum length,
\* maximum length, source language, and the reason returned is that of the
\* first rule that fails; with the filter on, a source whose last
\* significant character is no terminal punctuation gets the punctuation
\* reason whatever its length.
C6_RuleOrder ==
    (v_result # <<>> /\ v_result[1].res.raised = "") =>
        LET res == v_result[1].res
        IN  /\ IF Rule1Fails
               THEN ~res.ok /\ res.reason \in {ReasonEmpty, ReasonIgnorable,
                                                ReasonPunctuation}
               ELSE IF Rule2Fails
               THEN ~res.ok /\ res.reason = ReasonMinLength(Len(v_source), Len(v_target))
               ELSE IF Rule3Fails
               THEN ~res.ok /\ res.reason = ReasonMaxLength(Len(v_source), Len(v_target))
               ELSE IF Rule4Fails
               THEN ~res.ok /\ res.reason = ReasonLanguage
               ELSE res.ok /\ res.reason = <<>>
            /\ (Rule1Fails /\ HasSignificant(v_source)) =>
                   res.reason = ReasonPunctuation

\* a pair that breaks a length rule and the language rule, and gets the
\* length reason
C6_Witness ==
    /\ v_result # <<>>
    /\ ~Rule1Fails
    /\ Rule2Fails
    /\ Rule4Fails
    /\ v_result[1].res.reason = ReasonMinLength(Len(v_source), Len(v_target))

\* C7: validate_sentence_pair never raises: whatever the detection engine
\* does, the call returns (False, reason) or (True, '').
C7_NeverRaises ==
    v_result # <<>> => v_result[1].res.raised = ""

\* C10: clean_sentence is idempotent.
C10_Idempotent ==
    Len(cleaned) = 3 => cleaned[3] = cleaned[2]

\* ------------------------------------------------------------------------
\* Whitespace in the output of clean_sentence
\* ------------------------------------------------------------------------
HasWhitespace(t) == \E i \in 1..Len(t) : IsSpace(t[i])

HasSpaceRun(t) == \E i \in 1..(Len(t) - 1) : t[i] = " " /\ t[i + 1] = " "

\* C11 as stated: for every input that contains an ideograph anywhere,
\* also inside a doc# token, the output of clean_sentence contains no
\* whitespace character.
C11_AsStated ==
    \A i \in 2..Len(cleaned) :
        HasCJK(cleaned[i - 1]) => ~HasWhitespace(cleaned[i])

\* C11: for every input one of whose ideographs survives the removal of
\* markers, doc# tokens and numbering (the output contains an ideograph),
\* the output of clean_sentence contains no whitespace character; an input
\* whose ideographs are all removed gets its whitespace runs collapsed to
\* one space each.
C11_CJKWhitespace ==
    \A i \in 2..Len(cleaned) :
        /\ HasCJK(cleaned[i]) => ~HasWhitespace(cleaned[i])
        /\ (HasCJK(cleaned[i - 1]) /\ ~HasCJK(cleaned[i])) =>
               ~HasSpaceRun(cleaned[i])

\* an input with whitespace between two ideographs has been cleaned
C11_Witness ==
    /\ Len(cleaned) >= 2
    /\ \E i \in 2..(Len(cleaned[1]) - 1) :
           /\ IsSpace(cleaned[1][i])
           /\ cleaned[1][i - 1] \in CJK
           /\ cleaned[1][i + 1] \in CJK
    /\ HasCJK(cleaned[2])

\* C12: for every input that contains no ideograph, the output of
\* clean_sentence contains no run of two or more consecutive spaces.
C12_LatinWhitespace ==
    \A i \in 2..Len(cleaned) :
        ~HasCJK(cleaned[i - 1]) => ~HasSpaceRun(cleaned[i])

\* an input without ideograph and with two spaces between two letters has
\* been cleaned, and the letters are still there
C12_Witness ==
    /\ Len(cleaned) >= 2
    /\ ~HasCJK(cleaned[1])
    /\ cleaned[1] = <<"s", " ", " ", "s">>
    /\ cleaned[2] = <<"s", " ", "s">>

\* C13: validate_sentence_pair is deterministic: two calls with the same
\* source text, target text and configuration return the same
\* (bool, reason), the language-detection step included.
C13_Deterministic ==
    Len(v_result) >= 2 =>
        /\ v_result[1].res.ok = v_result[2].res.ok
        /\ v_result[1].res.reason = v_result[2].res.reason

\* ------------------------------------------------------------------------
\* Failures of the input file
\* ------------------------------------------------------------------------
\* C14 as stated: when the file is missing, unreadable or corrupt, the error
\* reaches the caller on the first pull and no batch, not even a partial
\* one, has been yielded.
C14_AsStated ==
    (/\ pc = "raised"
     /\ \A k \in 1..Len(validated) : validated[k].detect # "OSError") =>
        batches = <<>>

\* C14: when the file cannot be opened (load_workbook raises), the error
\* reaches the caller of the batch generator on its first pull, is not
\* swallowed, and no batch is yielded; a failure met later, while rows are
\* read, reaches the caller too, after the batches completed before it, and
\* the rows buffered since the last batch are not yielded.
C14_FileErrors ==
    /\ (pc # "created" /\ wb = "none") =>
           /\ pc = "raised"
           /\ batches = <<>>
           /\ yielded_rows = <<>>
    /\ pc = "raised" =>
           \A k \in 1..Len(batches) : Len(batches[k].valid) = BATCH_SIZE

\* the workbook could not be opened and the generator has raised
C14_Witness ==
    /\ pc = "raised"
    /\ wb = "none"
    /\ Len(sheet) > 0

\* ------------------------------------------------------------------------
\* Rows the reader drops
\* ------------------------------------------------------------------------
TooNarrow(n) == Len(sheet[n]) < max_column_index + 1

InSeq(q, n) == \E k \in 1..Len(q) : q[k] = n

\* row n is in one of the two buffers or in a yielded batch
Reported(n) ==
    \/ \E k \in 1..Len(sentence_pairs) : sentence_pairs[k].row = n
    \/ \E k \in 1..Len(invalid_pairs) : invalid_pairs[k].row = n
    \/ \E b \in 1..Len(batches) :
          \/ \E k \in 1..Len(batches[b].valid) : batches[b].valid[k].row = n
          \/ \E k \in 1..Len(batches[b].invalid) : batches[b].invalid[k].row = n

\* every configured field of row n is empty after trimming
EveryFieldEmpty(n) ==
    \A name \in EnabledColumns :
        strip(sheet[n][FILE_STRUCTURE.columns[name].index + 1]) = <<>>

\* C15: a row with fewer physical columns than the highest configured
\* column index + 1 is dropped by read_excel_file: it is never yielded, it
\* is in no valid or invalid list, and the rows after it are still read
\* (when the generator is exhausted, every later row that is wide enough and
\* not blank has been yielded).
C15_NarrowRowDropped ==
    \A n \in 1..Len(sheet) :
        TooNarrow(n) =>
            /\ ~InSeq(yielded_rows, n)
            /\ ~Reported(n)
            /\ n <= row_iter => InSeq(dropped_rows, n)
            /\ pc = "done" =>
                   \A m \in (n + 1)..Len(sheet) :
                       (~TooNarrow(m) /\ ~EveryFieldEmpty(m)) =>
                           InSeq(yielded_rows, m) /\ Reported(m)

\* the generator is exhausted, a row with too few columns was met and a row
\* after it was yielded
C15_Witness ==
    /\ pc = "done"
    /\ \E n \in 1..Len(sheet) :
           /\ TooNarrow(n)
           /\ InSeq(dropped_rows, n)
           /\ \E m \in (n + 1)..Len(sheet) : InSeq(yielded_rows, m)

Validated(n) == \E k \in 1..Len(validated) : validated[k].row = n

\* C16: a row with enough columns is dropped as blank exactly when every
\* configured (enabled) field is empty after trimming; a row with at least
\* one non-empty configured field, be it only a document id next to an
\* empty source text, is yielded and reaches validation.
C16_BlankRowDropped ==
    \A n \in 1..row_iter :
        ~TooNarrow(n) =>
            /\ InSeq(dropped_rows, n) <=> EveryFieldEmpty(n)
            /\ InSeq(yielded_rows, n) <=> ~EveryFieldEmpty(n)
            /\ ~EveryFieldEmpty(n) => (Validated(n) \/ pc = "raised")
            /\ Validated(n) => (Reported(n) /\ ~EveryFieldEmpty(n))

\* a row with a document id and nothing else was yielded and validated, and
\* a row with only whitespace in it was dropped
C16_Witness ==
    /\ FILE_STRUCTURE.columns = DefaultColumns
    /\ \E n \in 1..row_iter :
           /\ sheet[n] = RowTitle
           /\ InSeq(yielded_rows, n)
           /\ Validated(n)
    /\ \E n \in 1..row_iter :
           /\ sheet[n] = RowBlank
           /\ InSeq(dropped_rows, n)

\* ------------------------------------------------------------------------
\* The length rules
\* ------------------------------------------------------------------------
WithinBounds(t) ==
    MIN_SENTENCE_LENGTH <= Len(t) /\ Len(t) <= MAX_SENTENCE_LENGTH

\* C17: the length rules are inclusive bounds on both texts. A pair that
\* passes rule 1 is rejected with the minimum-length reason iff the source
\* or the target is shorter than min_sentence_length, with the
\* maximum-length reason iff neither is and one is longer than
\* max_sentence_length; a pair whose lengths lie in [min, max], the two
\* ends included, gets no length reason.
C17_InclusiveBounds ==
    \A k \in 1..Len(v_result) :
        LET res == v_result[k].res
            min_reason == ReasonMinLength(Len(v_source), Len(v_target))
            max_reason == ReasonMaxLength(Len(v_source), Len(v_target))
        IN  ~Rule1Fails =>
                /\ (res.raised = "" /\ res.reason = min_reason) <=> Rule2Fails
                /\ (res.raised = "" /\ res.reason = max_reason) <=>
                       (~Rule2Fails /\ Rule3Fails)
                /\ (WithinBounds(v_source) /\ WithinBounds(v_target)) =>
                       (res.raised # "" \/ res.reason \in {<<>>, ReasonLanguage})

\* a source of exactly min_sentence_length characters with a target of
\* exactly max_sentence_length characters (or the other way round) passed
\* both length rules
C17_Witness ==
    /\ v_result # <<>>
    /\ v_result[1].res.raised = ""
    /\ ~Rule1Fails
    /\ \/ Len(v_source) = MIN_SENTENCE_LENGTH /\ Len(v_target) = MAX_SENTENCE_LENGTH
       \/ Len(v_source) = MAX_SENTENCE_LENGTH /\ Len(v_target) = MIN_SENTENCE_LENGTH
    /\ v_result[1].res.reason \in {<<>>, ReasonLanguage}

\* ------------------------------------------------------------------------
\* The invalid-pairs file
\* ------------------------------------------------------------------------
RECURSIVE SavedLines(_)
SavedLines(calls) ==
    IF calls = <<>> THEN <<>>
    ELSE [i \in 1..Len(Head(calls)) |-> InvalidLine(Head(calls)[i])]
             \o SavedLines(Tail(calls))

\* C18: after any sequence of save_invalid_pairs calls with the same output
\* file, the invalid-pairs file absent at the start, the file holds one
\* header row, as its first line, followed by the records of every
\* non-empty list in call order; no file is made as long as every list was
\* empty.
C18_InvalidFile ==
    IF SavedLines(save_calls) = <<>>
    THEN ~invalid_file_exists
    ELSE /\ invalid_file_exists
         /\ invalid_file = <<InvalidFieldnames>> \o SavedLines(save_calls)

\* three calls were made, the second with an empty list, the others not
C18_Witness ==
    /\ Len(save_calls) = 3
    /\ save_calls[1] # <<>>
    /\ save_calls[2] = <<>>
    /\ save_calls[3] # <<>>
    /\ Len(invalid_file) = 1 + Len(save_calls[1]) + Len(save_calls[3])

\* ------------------------------------------------------------------------
\* The results file
\* ------------------------------------------------------------------------
\* the rows pair k is due for what the analysis call returned
RowsDue(k, results) ==
    IF results = <<>> THEN <<PlaceholderRow(k)>>
    ELSE [i \in 1..Len(results) |-> ResultRow(k, results[i])]

\* the rows due for the pairs analysed from the k-th on, a pair whose list
\* holds an element that is not an object left aside
RECURSIVE RowsDueFrom(_)
RowsDueFrom(k) ==
    IF k > Len(analysed) THEN <<>>
    ELSE (IF HasBadItem(analysed[k]) THEN <<>> ELSE RowsDue(k, analysed[k]))
             \o RowsDueFrom(k + 1)

\* C19: once process_file has returned, the results file holds the header
\* once, in front of every result row, and for every pair that was analysed
\* one row per finding the analysis call returned, or one placeholder row
\* when it returned none: no analysed pair is left without a row (stated
\* for the pairs whose findings are all objects).
C19_ResultsFile ==
    (pf_pc \in {"returned True", "returned False"} /\ output_file_exists) =>
        output_file = <<ResultFieldnames>> \o RowsDueFrom(1)

\* ------------------------------------------------------------------------
\* The limits of a DataProcessor built from an accepted configuration
\* ------------------------------------------------------------------------
\* C20: every configuration load_config accepts gives a DataProcessor with
\* MAX_SENTENCE_LENGTH > MIN_SENTENCE_LENGTH and 50 <= BATCH_SIZE <= 2000,
\* a key absent from the configuration taking the DataProcessor default.
C20_EffectiveLimits ==
    processor # <<>> =>
        /\ processor[1].MAX_SENTENCE_LENGTH > processor[1].MIN_SENTENCE_LENGTH
        /\ Number(50, 0) <= processor[1].BATCH_SIZE
        /\ processor[1].BATCH_SIZE <= Number(2000, 0)

\* ------------------------------------------------------------------------
\* The sink of the invalid pairs
\* ------------------------------------------------------------------------
\* C21: for every output path the caller supplies, the invalid-pairs path
\* derived from it differs from the results path, so that invalid rows are
\* never written into the results file.
C21_DistinctSink ==
    invalid_path # <<>> => invalid_path[1] # output_path

\* ------------------------------------------------------------------------
\* Batch boundaries
\* ------------------------------------------------------------------------
AllValid == \A k \in 1..Len(ExpectedAll) : ExpectedAll[k].ok

\* C22: no yielded batch is empty in both lists; when the number of valid
\* records is an exact multiple of batch_size and the last record validated
\* is valid, the number of batches is that multiple (no trailing empty
\* batch); with batch_size 1 and three records, all valid, exactly three
\* batches are yielded, each with one valid pair and no invalid pair.
C22_NoEmptyBatch ==
    /\ \A k \in 1..Len(batches) :
           batches[k].valid # <<>> \/ batches[k].invalid # <<>>
    /\ (/\ pc = "done"
        /\ validated # <<>>
        /\ ExpectedAll[Len(validated)].ok
        /\ Len(ExpectedValid) % BATCH_SIZE = 0) =>
           Len(batches) * BATCH_SIZE = Len(ExpectedValid)
    /\ (pc = "done" /\ BATCH_SIZE = 1 /\ Len(validated) = 3 /\ AllValid) =>
           /\ Len(batches) = 3
           /\ \A k \in 1..3 :
                  /\ batches[k].valid = <<ExpectedValid[k]>>
                  /\ batches[k].invalid = <<>>

\* batch_size 1 and a sheet of three rows, all valid, read to the end
C22_Witness ==
    /\ pc = "done"
    /\ BATCH_SIZE = 1
    /\ Len(sheet) = 3
    /\ Len(validated) = 3
    /\ AllValid
    /\ Len(batches) = 3

\* C23: a batch that is not the final one is yielded exactly when the valid
\* buffer reaches batch_size after a row: while rows are read the number of
\* batches is the number of valid records so far divided by batch_size,
\* however many invalid pairs are buffered; the valid buffer never holds
\* more than batch_size pairs; both buffers are empty again after each
\* yield, so that the batches and the buffers, end to end, are the valid
\* and the invalid records so far, each once and in order.
C23_FlushRule ==
    /\ Len(sentence_pairs) <= BATCH_SIZE
    /\ pc = "read" => Len(sentence_pairs) < BATCH_SIZE
    /\ pc = "yielded" =>
           /\ Len(sentence_pairs) = BATCH_SIZE
           /\ batches[Len(batches)] =
                  [valid |-> sentence_pairs, invalid |-> invalid_pairs]
    /\ pc \in {"read", "yielded"} =>
           /\ Len(batches) = Len(ExpectedValid) \div BATCH_SIZE
           /\ ConcatValid(batches) \o (IF pc = "read" THEN sentence_pairs ELSE <<>>)
                  = ExpectedValid
           /\ ConcatInvalid(batches) \o (IF pc = "read" THEN invalid_pairs ELSE <<>>)
                  = ExpectedInvalid

\* after a first batch, more invalid pairs than batch_size are buffered and
\* no batch has been yielded for them
C23_Witness ==
    /\ pc = "read"
    /\ Len(batches) = 1
    /\ Len(invalid_pairs) > BATCH_SIZE
    /\ sentence_pairs = <<>>

\* ------------------------------------------------------------------------
\* Stopping process_file
\* ------------------------------------------------------------------------
\* C24: once stop() has set the stop flag while process_file runs, no new
\* analysis call is started (the call in flight may complete), and every
\* result row gathered before the stop is in the results file when
\* process_file is left.
C24_CooperativeStop ==
    /\ ~started_after_stop
    /\ (stop_processing /\ output_file_exists
            /\ pf_pc \in {"returned True", "exited"}) =>
           output_file = <<ResultFieldnames>> \o RowsDueFrom(1)

\* ------------------------------------------------------------------------
\* The attempts of analyze_sentence_with_ai
\* ------------------------------------------------------------------------
\* C25: analyze_sentence_with_ai makes at most 3 HTTP attempts for a pair;
\* an attempt is followed by another one only when it ended in a
\* RequestException; once it has returned, it has returned a list: the
\* parsed list when the last attempt parsed one, the empty list after any
\* failure.
C25_Retries ==
    /\ Len(ai_log) <= 3
    /\ \A k \in 1..(Len(ai_log) - 1) : ai_log[k].kind \in RequestExceptions
    /\ ai_pc = "called" =>
           /\ ai_return = <<>>
           /\ \A k \in 1..Len(ai_log) : ai_log[k].kind \in RequestExceptions
    /\ ai_pc = "returned" =>
           /\ ai_log # <<>>
           /\ ai_return = <<IF ai_log[Len(ai_log)].kind = "Parsed"
                             THEN ai_log[Len(ai_log)].value ELSE <<>>>>
           /\ ai_log[Len(ai_log)].kind \in RequestExceptions =>
                  Len(ai_log) = 3

\* two attempts failed with a RequestException and the third parsed a list
\* of findings, which was returned
C25_Witness ==
    /\ ai_pc = "returned"
    /\ Len(ai_log) = 3
    /\ ai_log[1].kind \in RequestExceptions
    /\ ai_log[2].kind \in RequestExceptions
    /\ ai_log[3].kind = "Parsed"
    /\ ai_return # <<<<>>>>

\* ------------------------------------------------------------------------
\* The rows process_file sorts
\* ------------------------------------------------------------------------
\* C26: when process_file has gone through the sheet, every row that is
\* left after the all-empty rows were dropped is in sentence_pairs or in
\* invalid_pairs: the two lists together have as many entries as df has
\* rows.
C26_EveryRowClassified ==
    pf_pc = "extracted" =>
        Len(core_pairs) + Len(core_invalid_pairs) = Len(df)

\* ------------------------------------------------------------------------
\* The ways out of process_file
\* ------------------------------------------------------------------------
\* the files are as they were before the call
FilesUntouched ==
    /\ output_file = (IF output_file_exists THEN OldContent ELSE <<>>)
    /\ core_invalid_file = (IF core_invalid_exists THEN OldContent ELSE <<>>)

\* a row whose language test let an error of detect through has been read
RowRaised ==
    \E k \in 1..df_i : k < Len(df) /\ RowVerdict(df[k]) = "raised"

\* C30: process_file is left by a return only, never by an exception: an
\* input that cannot be read and an error while a row is validated both
\* end in the return value False, and after an unreadable input neither
\* the results file nor the invalid-pairs file has been created or changed.
C30_NeverRaises ==
    /\ pf_pc \notin Running => pf_pc \in {"returned True", "returned False"}
    /\ (~input_file.readable /\ pf_pc \notin Running) =>
           pf_pc = "returned False" /\ FilesUntouched
    /\ RowRaised => pf_pc = "returned False"

\* ------------------------------------------------------------------------
\* The runs of the main window
\* ------------------------------------------------------------------------
\* the window as _processing_finished leaves it
IdleWindow ==
    /\ start_btn = "normal"
    /\ stop_btn = "disabled"
    /\ select_input_btn = "normal"
    /\ select_output_btn = "normal"
    /\ settings_btn = "normal"

\* C27: at most one worker thread exists at a time; while a run is under
\* way (its thread runs or its _processing_finished is queued) the start
\* button is disabled, so that start_processing cannot fire; when no run is
\* under way, whatever the outcome of the last one, is_processing is False
\* and the window is idle again; and the stop flag of a processor is set
\* only by a stop requested during its own run.
C27_SingleRun ==
    /\ Cardinality(threads) + Len(after_queue) <= 1
    /\ is_processing <=> (threads # {} \/ after_queue # <<>>)
    /\ is_processing => start_btn = "disabled" /\ stop_btn = "normal"
    /\ ~is_processing => IdleWindow
    /\ threads \subseteq {gui_processor}
    /\ \A k \in 1..Len(processors) : processors[k] => k \in stop_requests

\* a run was stopped, a second run was started after it, has failed and
\* has been finished: the window is idle and the flag of the second
\* processor was never set
C27_Witness ==
    /\ Len(processors) = 2
    /\ processors[1]
    /\ ~processors[2]
    /\ ~is_processing
    /\ threads = {}
    /\ after_queue = <<>>
    /\ IdleWindow

\* ------------------------------------------------------------------------
\* The first run of the command-line program
\* ------------------------------------------------------------------------
\* C28: when there was no configuration file at startup,
\* check_and_setup_config has taken its first-run branch, the default
\* configuration file is on disk and the value returned is False.
C28_FirstRun ==
    (setup_return # <<>> /\ file_at_start[1].state = "absent") =>
        /\ setup_branch = "first run"
        /\ config_file = DefaultFile
        /\ setup_return = <<FALSE>>

\* ------------------------------------------------------------------------
\* The shortest source that can be accepted
\* ------------------------------------------------------------------------
\* C29: an accepted pair has a source of at least max(min_sentence_length,
\* 10) characters; a source of fewer than 10 characters that passes the
\* completeness rule and both length rules is rejected with the
\* language-detection reason, and detect is not called for it.
C29_SourceAtLeastTen ==
    \A k \in 1..Len(v_result) :
        LET res == v_result[k].res
        IN  /\ res.ok =>
                   /\ Len(v_source) >= MIN_SENTENCE_LENGTH
                   /\ Len(v_source) >= LanguageMinLength
            /\ (~Rule1Fails /\ ~Rule2Fails /\ ~Rule3Fails
                    /\ Len(v_source) < LanguageMinLength) =>
                   /\ res = Return(FALSE, ReasonLanguage)
                   /\ v_result[k].detect = "not called"

\* with min_sentence_length 3, a complete source of 9 characters and a
\* target within the limits: rejected by the language rule, without a call
\* of detect
C29_Witness ==
    /\ MIN_SENTENCE_LENGTH < LanguageMinLength
    /\ Len(v_source) = LanguageMinLength - 1
    /\ ~Rule1Fails
    /\ v_result # <<>>
    /\ v_result[1].res = Return(FALSE, ReasonLanguage)
    /\ v_result[1].detect = "not called"

====
